---------------------------- MODULE Spec2Model ----------------------------
(***************************************************************************)
(* Model of the educational applets of LINEAR-ALGEBRA-CODES:               *)
(*   - Discrete_Continuous.py : discrete signal arithmetic                 *)
(*   - RGB.py                 : nearest named colour                       *)
(*   - kvl-kcl.py             : series circuit (KVL) and node (KCL) tabs   *)
(*   - scalar vs vector.py    : scalar / vector tables and the Q x E panel *)
(* Every applet is a single-threaded Tk program: one action per callback.  *)
(* Each applet has its own specification; the variables of the other       *)
(* applets stay at their initial values.                                   *)
(***************************************************************************)
EXTENDS Integers, Sequences, FiniteSets, TLC

VARIABLES
    \* Discrete_Continuous.py : DiscreteArrayApp
    x1_var, x2_var, n0_var,   \* the three tk.StringVar, as character sequences
    fig,                      \* the matplotlib Figure (what the canvas holds)
    matrix,                   \* the rows of the "Value Matrix" tk.Text
    last                      \* the last call of _update: its caller and how it ended

dvars == <<x1_var, x2_var, n0_var, fig, matrix, last>>

VARIABLES
    \* RGB.py
    red, green, blue,         \* the three tk.IntVar behind the sliders
    preview,                  \* the background colour of the preview label
    label                     \* the text of the result label, by its parts

cvars == <<red, green, blue, preview, label>>

VARIABLES
    \* kvl-kcl.py : KVLTab
    kvl_vs, kvl_r1, kvl_r2, kvl_r3,   \* the four tk.DoubleVar of the sliders
    kvl_out,                          \* what _update last computed and showed
    \* kvl-kcl.py : KCLTab
    kcl_v1, kcl_v2, kcl_v3,           \* the branch-voltage DoubleVar
    kcl_r1, kcl_r2, kcl_r3,           \* the branch-resistance DoubleVar
    kcl_out                           \* what _update last computed and showed

kvlvars == <<kvl_vs, kvl_r1, kvl_r2, kvl_r3, kvl_out>>
kclvars == <<kcl_v1, kcl_v2, kcl_v3, kcl_r1, kcl_r2, kcl_r3, kcl_out>>

VARIABLES
    \* scalar vs vector.py
    SCALAR_DATA,              \* the dict of scalar quantities, in dict order
    VECTOR_DATA,              \* the dict of vector quantities, in dict order
    active_scalar,            \* name of the scalar on the number line
    active_vector,            \* name of the highlighted vector
    scalar_table_visible,
    vector_table_visible,
    scalar_win,               \* the "Enter Scalar Value" window, while it exists
    vector_win,               \* the "Enter Vector Components" window, while it exists
    mainloops,                \* calls of enter_scalar / enter_vector that have not
                              \* returned: each one sits in its win.mainloop()
    backend,                  \* what the first tk.Tk() of an enter_* call met
    drawn                     \* what redraw_all last put on the figure

svvars == <<SCALAR_DATA, VECTOR_DATA, active_scalar, active_vector,
            scalar_table_visible, vector_table_visible, scalar_win, vector_win,
            mainloops, backend, drawn>>

VARIABLES
    \* sv-v&v.py : DualVectorVisualizer
    sl_sigma, sl_ex, sl_ey,           \* the values of the three left sliders
    sl_v1x, sl_v1y, sl_v2x, sl_v2y,   \* the values of the four right sliders
    radio,                            \* radio.value_selected
    left_plot,                        \* what draw_left last drew
    right_plot                        \* what draw_right last drew

vvvars == <<sl_sigma, sl_ex, sl_ey, sl_v1x, sl_v1y, sl_v2x, sl_v2y, radio,
            left_plot, right_plot>>

vars == <<dvars, cvars, kvlvars, kclvars, svvars, vvvars>>

(***************************************************************************)
(* Numbers.  A Python float is modelled by an exact rational [n, d] in     *)
(* lowest terms with d > 0; d = 0 marks the IEEE specials: n = 0 is nan,   *)
(* n = 1 is +inf, n = -1 is -inf.                                          *)
(***************************************************************************)
Abs(i) == IF i < 0 THEN -i ELSE i

RECURSIVE Gcd(_, _)
Gcd(a, b) == IF b = 0 THEN Abs(a) ELSE Gcd(b, a % b)

Rat(n, d) ==
    LET g == Gcd(Abs(n), Abs(d))
        s == IF d < 0 THEN -1 ELSE 1
    IN  [n |-> s * (n \div g), d |-> s * (d \div g)]

IntR(i) == [n |-> i, d |-> 1]
NaN == [n |-> 0, d |-> 0]
Inf(s) == [n |-> s, d |-> 0]

IsNaN(a) == a.d = 0 /\ a.n = 0
IsInf(a) == a.d = 0 /\ a.n # 0
IsFinite(a) == a.d > 0
Sign(a) == IF a.n > 0 THEN 1 ELSE IF a.n < 0 THEN -1 ELSE 0

RNeg(a) == [n |-> -a.n, d |-> a.d]

RAdd(a, b) ==
    IF IsNaN(a) \/ IsNaN(b) THEN NaN
    ELSE IF IsInf(a) /\ IsInf(b) THEN (IF a.n = b.n THEN a ELSE NaN)
    ELSE IF IsInf(a) THEN a
    ELSE IF IsInf(b) THEN b
    ELSE LET g == Gcd(a.d, b.d)
         IN  Rat(a.n * (b.d \div g) + b.n * (a.d \div g), (a.d \div g) * b.d)

RSub(a, b) == RAdd(a, RNeg(b))

RMul(a, b) ==
    IF IsNaN(a) \/ IsNaN(b) THEN NaN
    ELSE IF IsInf(a) \/ IsInf(b)
         THEN (IF Sign(a) * Sign(b) = 0 THEN NaN ELSE Inf(Sign(a) * Sign(b)))
    ELSE LET g1 == Gcd(Abs(a.n), b.d)
             g2 == Gcd(Abs(b.n), a.d)
         IN  Rat((a.n \div g1) * (b.n \div g2), (a.d \div g2) * (b.d \div g1))

\* IEEE comparisons: every comparison with nan is false.
RLess(a, b) ==
    IF IsNaN(a) \/ IsNaN(b) THEN FALSE
    ELSE IF IsInf(a) \/ IsInf(b)
         THEN (IF IsInf(a) /\ IsInf(b) THEN a.n < b.n
               ELSE IF IsInf(a) THEN a.n < 0 ELSE b.n > 0)
    ELSE a.n * b.d < b.n * a.d

REq(a, b) == ~IsNaN(a) /\ ~IsNaN(b) /\ a = b
RLeq(a, b) == RLess(a, b) \/ REq(a, b)

\* a / b for finite a and finite b # 0
RDiv(a, b) == RMul(a, Rat(b.d, b.n))

\* Python's max(a, b): a unless b > a
PyMax(a, b) == IF RLess(a, b) THEN b ELSE a

RAbs(a) == [n |-> Abs(a.n), d |-> a.d]

\* sum(seq) of Python, starting from 0
RECURSIVE RSum(_)
RSum(xs) == IF xs = <<>> THEN IntR(0) ELSE RAdd(RSum(SubSeq(xs, 1, Len(xs) - 1)), xs[Len(xs)])

IsPos(x) == RLess(IntR(0), x)
IsNeg(x) == RLess(x, IntR(0))

(***************************************************************************)
(* Text.  A string is a sequence of one-character strings over the         *)
(* alphabet  0-9 + - . , space [ ] and letters.                            *)
(***************************************************************************)
DigitChars == <<"0", "1", "2", "3", "4", "5", "6", "7", "8", "9">>
IsDigit(c) == \E i \in 1..10 : DigitChars[i] = c
DigitVal(c) == (CHOOSE i \in 1..10 : DigitChars[i] = c) - 1

RECURSIVE LStrip(_, _)
LStrip(s, cs) == IF s # <<>> /\ Head(s) \in cs THEN LStrip(Tail(s), cs) ELSE s

RECURSIVE RStrip(_, _)
RStrip(s, cs) ==
    IF s # <<>> /\ s[Len(s)] \in cs THEN RStrip(SubSeq(s, 1, Len(s) - 1), cs) ELSE s

\* str.strip(chars); str.strip() is StripChars(s, {" "})
StripChars(s, cs) == RStrip(LStrip(s, cs), cs)

\* str.replace(old, new) for one-character old and new
Replace(s, old, new) == [i \in 1..Len(s) |-> IF s[i] = old THEN new ELSE s[i]]

\* str.split(): the maximal runs of non-blank characters
RECURSIVE SplitAcc(_, _, _)
SplitAcc(s, cur, acc) ==
    IF s = <<>> THEN (IF cur = <<>> THEN acc ELSE Append(acc, cur))
    ELSE IF Head(s) = " "
         THEN SplitAcc(Tail(s), <<>>, IF cur = <<>> THEN acc ELSE Append(acc, cur))
         ELSE SplitAcc(Tail(s), Append(cur, Head(s)), acc)

Split(s) == SplitAcc(s, <<>>, <<>>)

AllDigits(s) == \A i \in 1..Len(s) : IsDigit(s[i])

RECURSIVE DigitsVal(_)
DigitsVal(s) ==
    IF s = <<>> THEN 0 ELSE 10 * DigitsVal(SubSeq(s, 1, Len(s) - 1)) + DigitVal(s[Len(s)])

RECURSIVE Pow10(_)
Pow10(k) == IF k = 0 THEN 1 ELSE 10 * Pow10(k - 1)

IndexOf(s, c) == IF \E i \in 1..Len(s) : s[i] = c
                 THEN CHOOSE i \in 1..Len(s) : s[i] = c /\ \A j \in 1..(i - 1) : s[j] # c
                 ELSE 0

\* float(text): [ok |-> FALSE] when Python raises ValueError.
PyFloat(text) ==
    LET s    == StripChars(text, {" "})
        neg  == s # <<>> /\ Head(s) = "-"
        body == IF s # <<>> /\ Head(s) \in {"-", "+"} THEN Tail(s) ELSE s
        sgn  == IF neg THEN -1 ELSE 1
        dot  == IndexOf(body, ".")
        ip   == IF dot = 0 THEN body ELSE SubSeq(body, 1, dot - 1)
        fp   == IF dot = 0 THEN <<>> ELSE SubSeq(body, dot + 1, Len(body))
    IN  IF body = <<"n", "a", "n">> THEN [ok |-> TRUE, val |-> NaN]
        ELSE IF body = <<"i", "n", "f">> THEN [ok |-> TRUE, val |-> Inf(sgn)]
        ELSE IF AllDigits(ip) /\ AllDigits(fp) /\ Len(ip) + Len(fp) > 0
             THEN [ok |-> TRUE,
                   val |-> Rat(sgn * (DigitsVal(ip) * Pow10(Len(fp)) + DigitsVal(fp)),
                               Pow10(Len(fp)))]
        ELSE [ok |-> FALSE, val |-> NaN]

\* int(text): [ok |-> FALSE] when Python raises ValueError.
PyInt(text) ==
    LET s    == StripChars(text, {" "})
        neg  == s # <<>> /\ Head(s) = "-"
        body == IF s # <<>> /\ Head(s) \in {"-", "+"} THEN Tail(s) ELSE s
    IN  IF body # <<>> /\ AllDigits(body)
        THEN [ok |-> TRUE, val |-> (IF neg THEN -1 ELSE 1) * DigitsVal(body)]
        ELSE [ok |-> FALSE, val |-> 0]

(***************************************************************************)
(* Discrete_Continuous.py                                                  *)
(***************************************************************************)
\* parse_array(text): the samples, or ok = FALSE when a float() raises.
parse_array(text) ==
    LET stripped == StripChars(StripChars(text, {" "}), {"[", "]"})
        toks     == Split(Replace(stripped, ",", " "))
        fl       == [i \in 1..Len(toks) |-> PyFloat(toks[i])]
    IN  [ok   |-> \A i \in 1..Len(toks) : fl[i].ok,
         vals |-> [i \in 1..Len(toks) |-> fl[i].val]]

\* np.zeros(k)
Zeros(k) == [i \in 1..k |-> IntR(0)]

\* A slip in the second branch: the longer b is cut instead of a being padded.
pad_to_same_cut(a, b) ==
    LET diff == Len(a) - Len(b)
    IN  IF diff > 0 THEN <<a, b \o Zeros(diff)>>
        ELSE IF diff < 0 THEN <<a, SubSeq(b, 1, Len(a))>>
        ELSE <<a, b>>

\* A slip in the padding: the zeros are put in front of the shorter array.
pad_to_same_front(a, b) ==
    LET diff == Len(a) - Len(b)
    IN  IF diff > 0 THEN <<a, Zeros(diff) \o b>>
        ELSE IF diff < 0 THEN <<Zeros(-diff) \o a, b>>
        ELSE <<a, b>>

pad_to_same(a, b) ==
    LET diff == Len(a) - Len(b)
    IN  IF diff > 0 THEN <<a, b \o Zeros(diff)>>
        ELSE IF diff < 0 THEN <<a \o Zeros(-diff), b>>
        ELSE <<a, b>>

\* np.arange(n0, n0 + N)
Arange(n0, N) == [i \in 1..N |-> n0 + i - 1]

\* Lines 208-214: the solver of the applet.
Solve(a, b, n0) ==
    LET p  == pad_to_same(a, b)
        x1 == p[1]
        x2 == p[2]
        N  == Len(x1)
    IN  [n   |-> Arange(n0, N),
         x1  |-> x1,
         x2  |-> x2,
         add |-> [i \in 1..N |-> RAdd(x1[i], x2[i])],
         sub |-> [i \in 1..N |-> RSub(x1[i], x2[i])],
         mul |-> [i \in 1..N |-> RMul(x1[i], x2[i])]]

\* Lines 222-223: all(v == int(v) for v in x) raises on nan (ValueError) and
\* on inf (OverflowError).
TitleRaises(r) ==
    \/ \E i \in 1..Len(r.x1) : ~IsFinite(r.x1[i])
    \/ \E i \in 1..Len(r.x2) : ~IsFinite(r.x2[i])

\* The figure after lines 226-233: five stem plots over the same n.
DrawnFig(r) ==
    [state |-> "drawn", n |-> r.n, x1 |-> r.x1, x2 |-> r.x2,
     add |-> r.add, sub |-> r.sub, mul |-> r.mul]

\* The figure after fig.clear() and fig.subplots(5, 1): five empty axes.
ClearedFig ==
    [state |-> "cleared", n |-> <<>>, x1 |-> <<>>, x2 |-> <<>>,
     add |-> <<>>, sub |-> <<>>, mul |-> <<>>]

\* Lines 236-245: one row per sample.  The values are written with three
\* significant digits, which is exact for the integers below 1000 in
\* magnitude that the inputs of this model produce.
MatrixRows(r) ==
    [i \in 1..Len(r.n) |->
        [n |-> r.n[i], x1 |-> r.x1[i], x2 |-> r.x2[i],
         add |-> r.add[i], sub |-> r.sub[i], mul |-> r.mul[i]]]

Chars_4_7_2 == <<"4", ",", " ", "7", ",", " ", "2">>
Chars_2_3_7 == <<"2", ",", " ", "3", ",", " ", "7">>
Chars_0 == <<"0">>

\* Lines 198-200: the three parsed inputs; ok = FALSE when one of them raises.
ParseInputs(x1t, x2t, n0t) ==
    LET p1 == parse_array(x1t)
        p2 == parse_array(x2t)
        pn == PyInt(n0t)
    IN  [ok |-> p1.ok /\ p2.ok /\ pn.ok, x1 |-> p1.vals, x2 |-> p2.vals, n0 |-> pn.val]

\* A slip in the except branch: the figure is cleared before the message.
UpdateFrom_clear(x1t, x2t, n0t, ev) ==
    \E p \in {ParseInputs(x1t, x2t, n0t)} :
        IF ~p.ok
        THEN /\ fig' = ClearedFig
             /\ matrix' = matrix
             /\ last' = [ev |-> ev, res |-> "error"]
        ELSE \E r \in {Solve(p.x1, p.x2, p.n0)} :
             /\ fig' = DrawnFig(r)
             /\ matrix' = MatrixRows(r)
             /\ last' = [ev |-> ev, res |-> "ok"]

\* _update writing the new rows over the old text without matrix.delete:
\* the rows of a longer earlier computation stay below the new ones
UpdateFrom_keep(x1t, x2t, n0t, ev) ==
    \E p \in {ParseInputs(x1t, x2t, n0t)} :
        IF ~p.ok
        THEN /\ fig' = fig
             /\ matrix' = matrix
             /\ last' = [ev |-> ev, res |-> "error"]
        ELSE \E r \in {Solve(p.x1, p.x2, p.n0)} :
             IF TitleRaises(r)
             THEN /\ fig' = ClearedFig
                  /\ matrix' = matrix
                  /\ last' = [ev |-> ev, res |-> "raised"]
             ELSE /\ fig' = DrawnFig(r)
                  /\ matrix' = MatrixRows(r) \o SubSeq(matrix, Len(r.n) + 1, Len(matrix))
                  /\ last' = [ev |-> ev, res |-> "ok"]

\* DiscreteArrayApp._update on the given field contents (lines 196-245).
\*   res = "error"  : the except branch, showerror and return
\*   res = "raised" : an exception leaves the callback after fig.clear()
\*   res = "ok"     : figure and matrix replaced
\* With no samples at all (N = 0) ax.stem gets empty arrays; whether it draws
\* nothing or raises depends on the matplotlib in use: both outcomes.
UpdateFrom(x1t, x2t, n0t, ev) ==
    \E p \in {ParseInputs(x1t, x2t, n0t)} :
        IF ~p.ok
        THEN /\ fig' = fig
             /\ matrix' = matrix
             /\ last' = [ev |-> ev, res |-> "error"]
        ELSE \E r \in {Solve(p.x1, p.x2, p.n0)} :
             IF TitleRaises(r)
             THEN /\ fig' = ClearedFig
                  /\ matrix' = matrix
                  /\ last' = [ev |-> ev, res |-> "raised"]
             ELSE \/ /\ fig' = DrawnFig(r)
                     /\ matrix' = MatrixRows(r)
                     /\ last' = [ev |-> ev, res |-> "ok"]
                  \/ /\ Len(r.n) = 0
                     /\ fig' = ClearedFig
                     /\ matrix' = matrix
                     /\ last' = [ev |-> ev, res |-> "raised"]

\* The inputs a user types.  x1 is any list of at most MaxLen tokens joined
\* by ", "; x2 and the start index come from a few sample texts.
MaxLen == 1

Tokens == {<<"4">>, <<"x">>, <<"n", "a", "n">>}

RECURSIVE JoinComma(_)
JoinComma(ts) ==
    IF ts = <<>> THEN <<>>
    ELSE IF Len(ts) = 1 THEN ts[1]
    ELSE ts[1] \o <<",", " ">> \o JoinComma(Tail(ts))

X1Texts == {JoinComma(ts) : ts \in UNION {[1..k -> Tokens] : k \in 0..MaxLen}}

X2Texts == {Chars_2_3_7,
            <<"[", "5", " ", "-", "1", "]">>,
            <<>>,
            <<"3", ";", "1">>}

N0Texts == {Chars_0, <<" ", "-", "1">>, <<"1", ".", "5">>}

InitDiscrete ==
    LET r == Solve(parse_array(Chars_4_7_2).vals, parse_array(Chars_2_3_7).vals,
                   PyInt(Chars_0).val)
    IN  /\ x1_var = Chars_4_7_2
        /\ x2_var = Chars_2_3_7
        /\ n0_var = Chars_0
        /\ fig = DrawnFig(r)
        /\ matrix = MatrixRows(r)
        /\ last = [ev |-> "init", res |-> "ok"]

\* The user edits an entry; a StringVar has no trace, nothing is recomputed.
EditX1 ==
    \E t \in X1Texts :
        /\ x1_var' = t
        /\ UNCHANGED <<x2_var, n0_var, fig, matrix, last>>

EditX2 ==
    \E t \in X2Texts :
        /\ x2_var' = t
        /\ UNCHANGED <<x1_var, n0_var, fig, matrix, last>>

EditN0 ==
    \E t \in N0Texts :
        /\ n0_var' = t
        /\ UNCHANGED <<x1_var, x2_var, fig, matrix, last>>

\* COMPUTE & PLOT: command = self._update
Compute ==
    /\ UpdateFrom(x1_var, x2_var, n0_var, "compute")
    /\ UNCHANGED <<x1_var, x2_var, n0_var>>

\* _reset that sets the three fields and leaves the computation out
Reset_fields ==
    /\ x1_var' = Chars_4_7_2
    /\ x2_var' = Chars_2_3_7
    /\ n0_var' = Chars_0
    /\ UNCHANGED <<fig, matrix, last>>

\* RESET: DiscreteArrayApp._reset
Reset ==
    /\ x1_var' = Chars_4_7_2
    /\ x2_var' = Chars_2_3_7
    /\ n0_var' = Chars_0
    /\ UpdateFrom(Chars_4_7_2, Chars_2_3_7, Chars_0, "reset")

NextDiscrete ==
    (EditX1 \/ EditX2 \/ EditN0 \/ Compute \/ Reset)
        /\ UNCHANGED <<cvars, kvlvars, kclvars, svvars, vvvars>>

(***************************************************************************)
(* RGB.py                                                                  *)
(***************************************************************************)
COLOR_DB == <<
    [name |-> "Red",      r |-> 255, g |-> 0,   b |-> 0],
    [name |-> "Green",    r |-> 0,   g |-> 255, b |-> 0],
    [name |-> "Blue",     r |-> 0,   g |-> 0,   b |-> 255],
    [name |-> "Yellow",   r |-> 255, g |-> 255, b |-> 0],
    [name |-> "Cyan",     r |-> 0,   g |-> 255, b |-> 255],
    [name |-> "Magenta",  r |-> 255, g |-> 0,   b |-> 255],
    [name |-> "Orange",   r |-> 255, g |-> 165, b |-> 0],
    [name |-> "Purple",   r |-> 128, g |-> 0,   b |-> 128],
    [name |-> "Pink",     r |-> 255, g |-> 192, b |-> 203],
    [name |-> "Brown",    r |-> 165, g |-> 42,  b |-> 42],
    [name |-> "White",    r |-> 255, g |-> 255, b |-> 255],
    [name |-> "Black",    r |-> 0,   g |-> 0,   b |-> 0],
    [name |-> "Gray",     r |-> 128, g |-> 128, b |-> 128],
    [name |-> "Sky Blue", r |-> 135, g |-> 206, b |-> 235],
    [name |-> "Lime",     r |-> 50,  g |-> 205, b |-> 50],
    [name |-> "Gold",     r |-> 255, g |-> 215, b |-> 0],
    [name |-> "Navy",     r |-> 0,   g |-> 0,   b |-> 128],
    [name |-> "Olive",    r |-> 128, g |-> 128, b |-> 0],
    [name |-> "Teal",     r |-> 0,   g |-> 128, b |-> 128],
    [name |-> "Maroon",   r |-> 128, g |-> 0,   b |-> 0] >>

\* Line 33: dist = math.sqrt(...).  The model keeps the square: sqrt is
\* increasing and maps the distinct integers up to 3 * 255^2 to distinct
\* doubles, so dist < min_dist compares exactly as the squares do.
SqDist(r, g, b, c) ==
    (r - c.r) * (r - c.r) + (g - c.g) * (g - c.g) + (b - c.b) * (b - c.b)

\* Lines 32-36: the scan; min_dist < 0 stands for float("inf").
RECURSIVE ClosestScan(_, _, _, _, _, _)
ClosestScan(i, r, g, b, min_dist, closest_name) ==
    IF i > Len(COLOR_DB) THEN closest_name
    ELSE LET dist == SqDist(r, g, b, COLOR_DB[i])
         IN  IF min_dist < 0 \/ dist < min_dist
             THEN ClosestScan(i + 1, r, g, b, dist, COLOR_DB[i].name)
             ELSE ClosestScan(i + 1, r, g, b, min_dist, closest_name)

\* A slip in line 34: dist <= min_dist, so the last minimum wins.
RECURSIVE ClosestScanLe(_, _, _, _, _, _)
ClosestScanLe(i, r, g, b, min_dist, closest_name) ==
    IF i > Len(COLOR_DB) THEN closest_name
    ELSE LET dist == SqDist(r, g, b, COLOR_DB[i])
         IN  IF min_dist < 0 \/ dist <= min_dist
             THEN ClosestScanLe(i + 1, r, g, b, dist, COLOR_DB[i].name)
             ELSE ClosestScanLe(i + 1, r, g, b, min_dist, closest_name)

closest_color_le(r, g, b) == ClosestScanLe(1, r, g, b, -1, "Unknown")

\* A slip in line 33: the blue term is left out of the distance.
RECURSIVE ClosestScanRG(_, _, _, _, _)
ClosestScanRG(i, r, g, min_dist, closest_name) ==
    IF i > Len(COLOR_DB) THEN closest_name
    ELSE LET c    == COLOR_DB[i]
             dist == (r - c.r) * (r - c.r) + (g - c.g) * (g - c.g)
         IN  IF min_dist < 0 \/ dist < min_dist
             THEN ClosestScanRG(i + 1, r, g, dist, c.name)
             ELSE ClosestScanRG(i + 1, r, g, min_dist, closest_name)

closest_color_rg(r, g, b) == ClosestScanRG(1, r, g, -1, "Unknown")

closest_color(r, g, b) == ClosestScan(1, r, g, b, -1, "Unknown")

\* f"{v:02x}": two lower-case hexadecimal digits (0 <= v <= 255)
HexChars == <<"0", "1", "2", "3", "4", "5", "6", "7",
              "8", "9", "a", "b", "c", "d", "e", "f">>
Hex2(v) == <<HexChars[(v \div 16) + 1], HexChars[(v % 16) + 1]>>

\* Line 42: color = f"#{r:02x}{g:02x}{b:02x}"
HexColor(r, g, b) == <<"#">> \o Hex2(r) \o Hex2(g) \o Hex2(b)

\* update_color that looks the name up only while the label shows 'Black'
update_color_hold(r, g, b) ==
    /\ preview' = HexColor(r, g, b)
    /\ label' = [r |-> r, g |-> g, b |-> b, hex |-> HexColor(r, g, b),
                 name |-> IF label.name = "Black" THEN closest_color(r, g, b)
                          ELSE label.name]

\* update_color (lines 40-47) with the three IntVar at r, g, b
update_color(r, g, b) ==
    /\ preview' = HexColor(r, g, b)
    /\ label' = [r |-> r, g |-> g, b |-> b, hex |-> HexColor(r, g, b),
                 name |-> closest_color(r, g, b)]

\* The slider positions tried: every coordinate of the table and a grid.
RGBStep == 64
RGBMax == 255

SliderValues ==
    {COLOR_DB[i].r : i \in 1..Len(COLOR_DB)} \cup
    {COLOR_DB[i].g : i \in 1..Len(COLOR_DB)} \cup
    {COLOR_DB[i].b : i \in 1..Len(COLOR_DB)} \cup
    {v \in 0..RGBMax : v % RGBStep = 0}

\* Lines 53-55 and 75: the IntVar start at 0 and update_color() runs once.
InitRGB ==
    /\ red = 0
    /\ green = 0
    /\ blue = 0
    /\ preview = HexColor(0, 0, 0)
    /\ label = [r |-> 0, g |-> 0, b |-> 0, hex |-> HexColor(0, 0, 0),
                name |-> closest_color(0, 0, 0)]

\* A slider is moved: the Scale writes its IntVar and calls update_color.
MoveRed ==
    \E v \in SliderValues :
        /\ red' = v
        /\ UNCHANGED <<green, blue>>
        /\ update_color(v, green, blue)

MoveGreen ==
    \E v \in SliderValues :
        /\ green' = v
        /\ UNCHANGED <<red, blue>>
        /\ update_color(red, v, blue)

MoveBlue ==
    \E v \in SliderValues :
        /\ blue' = v
        /\ UNCHANGED <<red, green>>
        /\ update_color(red, green, v)

NextRGB ==
    (MoveRed \/ MoveGreen \/ MoveBlue) /\ UNCHANGED <<dvars, kvlvars, kclvars, svvars, vvvars>>

(***************************************************************************)
(* kvl-kcl.py                                                              *)
(***************************************************************************)
\* The values a tk.Scale can take: from_ + k * resolution up to to.  The
\* model tries every stride-th position and the last one.
SliderSet(from_, to, resolution, stride) ==
    LET last_k == RDiv(RSub(to, from_), resolution).n
    IN  {RAdd(from_, RMul(IntR(k), resolution)) :
            k \in {j \in 0..last_k : j % stride = 0 \/ j = last_k}}

VStride == 40
RStride == 49

Half == Rat(1, 2)

\* Lines 327-332 and 532-539: the sliders.
VsValues == SliderSet(IntR(1), IntR(30), Half, VStride)
VValues == SliderSet(IntR(-20), IntR(20), Half, VStride)
RValues == SliderSet(IntR(10), IntR(500), IntR(5), RStride)

\* Lines 447-452: the walk along the segments of the loop.  A segment with a
\* step first adds a point at the old position with the new potential.
RECURSIVE StairWalk(_, _, _, _, _, _)
StairWalk(lens, deltas, cur_x, cur_y, x_pts, y_pts) ==
    IF lens = <<>> THEN [x_pts |-> x_pts, y_pts |-> y_pts]
    ELSE LET dy   == Head(deltas)
             step == ~REq(dy, IntR(0))
             y1   == IF step THEN RAdd(cur_y, dy) ELSE cur_y
             x1   == RAdd(cur_x, Head(lens))
         IN  StairWalk(Tail(lens), Tail(deltas), x1, y1,
                       (IF step THEN Append(x_pts, cur_x) ELSE x_pts) \o <<x1>>,
                       (IF step THEN Append(y_pts, y1) ELSE y_pts) \o <<y1>>)

\* Line 436
seg_lens ==
    <<Rat(1, 2), IntR(1), Rat(1, 2), Rat(3, 2), Rat(3, 10), Rat(3, 2), Rat(3, 10),
      Rat(3, 2), Rat(1, 2)>>

\* A slip in line 443: the step at R1 goes up.
Elevation_up(Vs, V1, V2, V3) ==
    StairWalk(seg_lens,
              <<IntR(0), Vs, IntR(0), V1, IntR(0), RNeg(V2), IntR(0), RNeg(V3),
                IntR(0)>>,
              IntR(0), IntR(0), <<IntR(0)>>, <<IntR(0)>>)

\* Lines 436-452: the points of the elevation staircase.
Elevation(Vs, V1, V2, V3) ==
    StairWalk(seg_lens,
              <<IntR(0), Vs, IntR(0), RNeg(V1), IntR(0), RNeg(V2), IntR(0), RNeg(V3),
                IntR(0)>>,
              IntR(0), IntR(0), <<IntR(0)>>, <<IntR(0)>>)

\* The update stopped in line 372: nothing of the figure was redrawn.
NoElevation == [x_pts |-> <<>>, y_pts |-> <<>>]

\* A slip in line 371: R3 is left out of the total.
KVLSolve_noR3(vs, r1, r2, r3) ==
    LET Vs   == PyMax(vs, Rat(1, 100))
        R1   == PyMax(r1, IntR(1))
        R2   == PyMax(r2, IntR(1))
        R3   == PyMax(r3, IntR(1))
        Rtot == RAdd(R1, R2)
    IN  IF Rtot.n = 0
        THEN [res |-> "ZeroDivisionError", Vs |-> Vs, R1 |-> R1, R2 |-> R2, R3 |-> R3,
              Rtot |-> Rtot, I |-> NaN, V1 |-> NaN, V2 |-> NaN, V3 |-> NaN,
              check |-> NaN, elev |-> NoElevation]
        ELSE LET I  == RDiv(Vs, Rtot)
                 V1 == RMul(I, R1)
                 V2 == RMul(I, R2)
                 V3 == RMul(I, R3)
             IN  [res |-> "ok", Vs |-> Vs, R1 |-> R1, R2 |-> R2, R3 |-> R3,
                  Rtot |-> Rtot, I |-> I, V1 |-> V1, V2 |-> V2, V3 |-> V3,
                  check |-> RSub(RSub(RSub(Vs, V1), V2), V3),
                  elev |-> Elevation(Vs, V1, V2, V3)]

\* A slip in lines 368-370: the resistances are used as they are.
KVLSolve_noClamp(vs, r1, r2, r3) ==
    LET Vs   == PyMax(vs, Rat(1, 100))
        Rtot == RAdd(RAdd(r1, r2), r3)
    IN  IF Rtot.n = 0
        THEN [res |-> "ZeroDivisionError", Vs |-> Vs, R1 |-> r1, R2 |-> r2, R3 |-> r3,
              Rtot |-> Rtot, I |-> NaN, V1 |-> NaN, V2 |-> NaN, V3 |-> NaN,
              check |-> NaN, elev |-> NoElevation]
        ELSE LET I  == RDiv(Vs, Rtot)
                 V1 == RMul(I, r1)
                 V2 == RMul(I, r2)
                 V3 == RMul(I, r3)
             IN  [res |-> "ok", Vs |-> Vs, R1 |-> r1, R2 |-> r2, R3 |-> r3,
                  Rtot |-> Rtot, I |-> I, V1 |-> V1, V2 |-> V2, V3 |-> V3,
                  check |-> RSub(RSub(RSub(Vs, V1), V2), V3),
                  elev |-> Elevation(Vs, V1, V2, V3)]

\* KVLTab._update, lines 367-374 and 436-452, in exact arithmetic.  Vs / Rtot raises
\* ZeroDivisionError when Rtot is 0.
KVLSolve(vs, r1, r2, r3) ==
    LET Vs   == PyMax(vs, Rat(1, 100))
        R1   == PyMax(r1, IntR(1))
        R2   == PyMax(r2, IntR(1))
        R3   == PyMax(r3, IntR(1))
        Rtot == RAdd(RAdd(R1, R2), R3)
    IN  IF Rtot.n = 0
        THEN [res |-> "ZeroDivisionError", Vs |-> Vs, R1 |-> R1, R2 |-> R2, R3 |-> R3,
              Rtot |-> Rtot, I |-> NaN, V1 |-> NaN, V2 |-> NaN, V3 |-> NaN,
              check |-> NaN, elev |-> NoElevation]
        ELSE LET I  == RDiv(Vs, Rtot)
                 V1 == RMul(I, R1)
                 V2 == RMul(I, R2)
                 V3 == RMul(I, R3)
             IN  [res |-> "ok", Vs |-> Vs, R1 |-> R1, R2 |-> R2, R3 |-> R3,
                  Rtot |-> Rtot, I |-> I, V1 |-> V1, V2 |-> V2, V3 |-> V3,
                  check |-> RSub(RSub(RSub(Vs, V1), V2), V3),
                  elev |-> Elevation(Vs, V1, V2, V3)]

\* Line 574: [i for i in currents if i > 0]
RECURSIVE Inflows(_)
Inflows(xs) ==
    IF xs = <<>> THEN <<>>
    ELSE (IF IsPos(Head(xs)) THEN <<Head(xs)>> ELSE <<>>) \o Inflows(Tail(xs))

\* Line 575: [abs(i) for i in currents if i < 0]
RECURSIVE Outflows(_)
Outflows(xs) ==
    IF xs = <<>> THEN <<>>
    ELSE (IF IsNeg(Head(xs)) THEN <<RAbs(Head(xs))>> ELSE <<>>) \o Outflows(Tail(xs))

\* Python's min(a, b): a unless b < a
PyMin(a, b) == IF RLess(b, a) THEN b ELSE a

\* v > 1/p and abs(v) < 1/p for a finite v and a whole p > 0, as the
\* comparisons with the literals 1e-9 and 1e-6 of lines 678, 687, 707, 709.
ExceedsInv(v, p) == IsFinite(v) /\ v.n > v.d \div p
AbsBelowInv(v, p) == IsFinite(v) /\ Abs(v.n) <= (v.d - 1) \div p

\* Lines 706-709: the text and the colour of the balance indicator.
BalanceIndicator(check) ==
    [text  |-> IF AbsBelowInv(check, 1000000000) THEN <<"BALANCED">>
               ELSE <<"delta", check>>,
     color |-> IF AbsBelowInv(check, 1000000) THEN "#2e7d32" ELSE "#c62828"]

\* Lines 573-580 and 669-709: the split of the currents into inflow and
\* outflow, the direction labels of the sidebar, the stacked bars (a bar is
\* drawn for a part above 1e-9) and the balance indicator.
KCLBalance(Vn, R, G, I1, I2, I3) ==
    LET currents == <<I1, I2, I3>>
        I_in     == RSum(Inflows(currents))
        I_out    == RSum(Outflows(currents))
        check    == RSub(I_in, I_out)
        in_vals  == [k \in 1..3 |-> PyMax(currents[k], IntR(0))]
        out_vals == [k \in 1..3 |-> RAbs(PyMin(currents[k], IntR(0)))]
    IN  [res |-> "ok", R1 |-> R[1], R2 |-> R[2], R3 |-> R[3], Gsum |-> G, Vn |-> Vn,
         I1 |-> I1, I2 |-> I2, I3 |-> I3,
         I_in |-> I_in, I_out |-> I_out, check |-> check,
         dirs |-> [k \in 1..3 |-> IF IsPos(currents[k]) THEN "IN"
                                  ELSE IF IsNeg(currents[k]) THEN "OUT" ELSE "0"],
         in_vals |-> in_vals, out_vals |-> out_vals,
         in_bars  |-> [k \in 1..3 |-> ExceedsInv(in_vals[k], 1000000000)],
         out_bars |-> [k \in 1..3 |-> ExceedsInv(out_vals[k], 1000000000)],
         indicator |-> BalanceIndicator(check)]

\* The update stopped in line 565 or 568: nothing of the figure was redrawn.
KCLFailed(R, G) ==
    [res |-> "ZeroDivisionError", R1 |-> R[1], R2 |-> R[2], R3 |-> R[3], Gsum |-> G,
     Vn |-> NaN, I1 |-> NaN, I2 |-> NaN, I3 |-> NaN,
     I_in |-> NaN, I_out |-> NaN, check |-> NaN, dirs |-> [k \in 1..3 |-> "0"],
     in_vals |-> [k \in 1..3 |-> NaN], out_vals |-> [k \in 1..3 |-> NaN],
     in_bars |-> [k \in 1..3 |-> FALSE], out_bars |-> [k \in 1..3 |-> FALSE],
     indicator |-> [text |-> <<>>, color |-> ""]]

\* A slip in line 568: the weighted sum is not divided by G1 + G2 + G3.
KCLSolve_noDiv(v1, v2, v3, r1, r2, r3) ==
    LET R1 == PyMax(r1, IntR(1))
        R2 == PyMax(r2, IntR(1))
        R3 == PyMax(r3, IntR(1))
        G1 == RDiv(IntR(1), R1)
        G2 == RDiv(IntR(1), R2)
        G3 == RDiv(IntR(1), R3)
        G  == RAdd(RAdd(G1, G2), G3)
        Vn == RAdd(RAdd(RMul(G1, v1), RMul(G2, v2)), RMul(G3, v3))
    IN  KCLBalance(Vn, <<R1, R2, R3>>, G,
                   RDiv(RSub(v1, Vn), R1), RDiv(RSub(v2, Vn), R2), RDiv(RSub(v3, Vn), R3))

\* A slip in line 568: the node voltage is the plain mean of the three.
KCLSolve_mean(v1, v2, v3, r1, r2, r3) ==
    LET R1 == PyMax(r1, IntR(1))
        R2 == PyMax(r2, IntR(1))
        R3 == PyMax(r3, IntR(1))
        G  == RAdd(RAdd(RDiv(IntR(1), R1), RDiv(IntR(1), R2)), RDiv(IntR(1), R3))
        Vn == RDiv(RAdd(RAdd(v1, v2), v3), IntR(3))
    IN  KCLBalance(Vn, <<R1, R2, R3>>, G,
                   RDiv(RSub(v1, Vn), R1), RDiv(RSub(v2, Vn), R2), RDiv(RSub(v3, Vn), R3))

\* KCLTab._update, lines 562-576, in exact arithmetic.  1/R and the
\* division by G1 + G2 + G3 raise ZeroDivisionError on 0.
KCLSolve(v1, v2, v3, r1, r2, r3) ==
    LET R1 == PyMax(r1, IntR(1))
        R2 == PyMax(r2, IntR(1))
        R3 == PyMax(r3, IntR(1))
    IN  IF R1.n = 0 \/ R2.n = 0 \/ R3.n = 0
        THEN KCLFailed(<<R1, R2, R3>>, NaN)
        ELSE LET G1 == RDiv(IntR(1), R1)
                 G2 == RDiv(IntR(1), R2)
                 G3 == RDiv(IntR(1), R3)
                 G  == RAdd(RAdd(G1, G2), G3)
             IN  IF G.n = 0
                 THEN KCLFailed(<<R1, R2, R3>>, G)
                 ELSE LET Vn == RDiv(RAdd(RAdd(RMul(G1, v1), RMul(G2, v2)),
                                          RMul(G3, v3)), G)
                      IN  KCLBalance(Vn, <<R1, R2, R3>>, G,
                                     RDiv(RSub(v1, Vn), R1),
                                     RDiv(RSub(v2, Vn), R2),
                                     RDiv(RSub(v3, Vn), R3))

\* Lines 327-332, 364: the defaults, and the _update that ends _build.
InitKVL ==
    /\ kvl_vs = IntR(12)
    /\ kvl_r1 = IntR(100)
    /\ kvl_r2 = IntR(200)
    /\ kvl_r3 = IntR(150)
    /\ kvl_out = KVLSolve(IntR(12), IntR(100), IntR(200), IntR(150))

\* Lines 532-539, 559
InitKCL ==
    /\ kcl_v1 = IntR(12)
    /\ kcl_v2 = IntR(-6)
    /\ kcl_v3 = IntR(8)
    /\ kcl_r1 = IntR(100)
    /\ kcl_r2 = IntR(200)
    /\ kcl_r3 = IntR(150)
    /\ kcl_out = KCLSolve(IntR(12), IntR(-6), IntR(8), IntR(100), IntR(200), IntR(150))

\* A write to a DoubleVar runs its traces (lines 361-362, 556-557): the tab's
\* _update reads all the variables of the tab and redraws.
KVLWrite(vs, r1, r2, r3) ==
    /\ kvl_vs' = vs
    /\ kvl_r1' = r1
    /\ kvl_r2' = r2
    /\ kvl_r3' = r3
    /\ \E o \in {KVLSolve(vs, r1, r2, r3)} : kvl_out' = o

KCLWrite(v1, v2, v3, r1, r2, r3) ==
    /\ kcl_v1' = v1
    /\ kcl_v2' = v2
    /\ kcl_v3' = v3
    /\ kcl_r1' = r1
    /\ kcl_r2' = r2
    /\ kcl_r3' = r3
    /\ \E o \in {KCLSolve(v1, v2, v3, r1, r2, r3)} : kcl_out' = o

\* The user drags a slider of the KVL tab.
SlideVs == \E v \in VsValues : KVLWrite(v, kvl_r1, kvl_r2, kvl_r3)
SlideKvlR1 == \E v \in RValues : KVLWrite(kvl_vs, v, kvl_r2, kvl_r3)
SlideKvlR2 == \E v \in RValues : KVLWrite(kvl_vs, kvl_r1, v, kvl_r3)
SlideKvlR3 == \E v \in RValues : KVLWrite(kvl_vs, kvl_r1, kvl_r2, v)

NextKVL ==
    (SlideVs \/ SlideKvlR1 \/ SlideKvlR2 \/ SlideKvlR3)
        /\ UNCHANGED <<dvars, cvars, kclvars, svvars, vvvars>>

\* The user drags a slider of the KCL tab.
SlideV1 == \E v \in VValues : KCLWrite(v, kcl_v2, kcl_v3, kcl_r1, kcl_r2, kcl_r3)
SlideV2 == \E v \in VValues : KCLWrite(kcl_v1, v, kcl_v3, kcl_r1, kcl_r2, kcl_r3)
SlideV3 == \E v \in VValues : KCLWrite(kcl_v1, kcl_v2, v, kcl_r1, kcl_r2, kcl_r3)
SlideKclR1 == \E v \in RValues : KCLWrite(kcl_v1, kcl_v2, kcl_v3, v, kcl_r2, kcl_r3)
SlideKclR2 == \E v \in RValues : KCLWrite(kcl_v1, kcl_v2, kcl_v3, kcl_r1, v, kcl_r3)
SlideKclR3 == \E v \in RValues : KCLWrite(kcl_v1, kcl_v2, kcl_v3, kcl_r1, kcl_r2, v)

NextKCL ==
    (SlideV1 \/ SlideV2 \/ SlideV3 \/ SlideKclR1 \/ SlideKclR2 \/ SlideKclR3)
        /\ UNCHANGED <<dvars, cvars, kvlvars, svvars, vvvars>>

\* Lines 573-709 on their own: the part of KCLTab._update after the three
\* currents are known is a function of the currents alone.  The currents are
\* floats, so the function is tried on sizes from 1e-9 A to 10 mA.
BranchCurrents ==
    {Rat(-1, 100), Rat(-1, 1000000000), IntR(0),
     Rat(1, 1000000000), Rat(1, 100000000), Rat(1, 100)}

ShowBalance ==
    /\ kcl_out.res = "ok"
    /\ \E I1 \in BranchCurrents, I2 \in BranchCurrents, I3 \in BranchCurrents :
          \E o \in {KCLBalance(kcl_out.Vn, <<kcl_out.R1, kcl_out.R2, kcl_out.R3>>,
                               kcl_out.Gsum, I1, I2, I3)} : kcl_out' = o
    /\ UNCHANGED <<kcl_v1, kcl_v2, kcl_v3, kcl_r1, kcl_r2, kcl_r3>>

NextBalance ==
    ShowBalance /\ UNCHANGED <<dvars, cvars, kvlvars, svvars, vvvars>>

\* The solvers on values no slider can give: a program writes the DoubleVar
\* directly (var.set), which runs the same traces.
AnyVs == {IntR(-3), IntR(0)}
AnyR == {IntR(-5), IntR(0)}

SetVs == \E v \in AnyVs : KVLWrite(v, kvl_r1, kvl_r2, kvl_r3)
SetKvlR1 == \E v \in AnyR : KVLWrite(kvl_vs, v, kvl_r2, kvl_r3)
SetKvlR2 == \E v \in AnyR : KVLWrite(kvl_vs, kvl_r1, v, kvl_r3)
SetKvlR3 == \E v \in AnyR : KVLWrite(kvl_vs, kvl_r1, kvl_r2, v)
SetKclR1 == \E v \in AnyR : KCLWrite(kcl_v1, kcl_v2, kcl_v3, v, kcl_r2, kcl_r3)
SetKclR2 == \E v \in AnyR : KCLWrite(kcl_v1, kcl_v2, kcl_v3, kcl_r1, v, kcl_r3)
SetKclR3 == \E v \in AnyR : KCLWrite(kcl_v1, kcl_v2, kcl_v3, kcl_r1, kcl_r2, v)

NextSet ==
    \/ (SetVs \/ SetKvlR1 \/ SetKvlR2 \/ SetKvlR3) /\ UNCHANGED <<dvars, cvars, kclvars, svvars, vvvars>>
    \/ (SetKclR1 \/ SetKclR2 \/ SetKclR3) /\ UNCHANGED <<dvars, cvars, kvlvars, svvars, vvvars>>

(***************************************************************************)
(* scalar vs vector.py                                                     *)
(* The two dicts are sequences of records in dict order.  The Enter-Scalar *)
(* window runs a nested Tk main loop; the model keeps at most one such     *)
(* window at a time.                                                       *)
(***************************************************************************)
SCALAR_DATA_0 ==
    << [name |-> "Charge",       value |-> IntR(1),     unit |-> "uC",   symbol |-> "Q", range |-> <<-100, 100>>],
       [name |-> "Voltage (DC)", value |-> IntR(5),     unit |-> "V",    symbol |-> "V", range |-> <<-20, 20>>],
       [name |-> "Current (DC)", value |-> Rat(23, 10), unit |-> "A",    symbol |-> "I", range |-> <<-10, 10>>],
       [name |-> "Resistance",   value |-> IntR(10),    unit |-> "Ohm",  symbol |-> "R", range |-> <<0, 1000>>],
       [name |-> "Power",        value |-> IntR(50),    unit |-> "W",    symbol |-> "P", range |-> <<0, 500>>],
       [name |-> "Energy",       value |-> IntR(120),   unit |-> "J",    symbol |-> "E", range |-> <<0, 1000>>],
       [name |-> "Frequency",    value |-> Rat(12, 5),  unit |-> "GHz",  symbol |-> "f", range |-> <<0, 100>>],
       [name |-> "Temperature",  value |-> IntR(85),    unit |-> "degC", symbol |-> "T", range |-> <<-50, 200>>],
       [name |-> "Capacitance",  value |-> IntR(100),   unit |-> "pF",   symbol |-> "C", range |-> <<0, 10000>>] >>

VECTOR_DATA_0 ==
    << [name |-> "Electric Field E",   x |-> IntR(3),    y |-> IntR(2),    unit |-> "V/m",   symbol |-> "E"],
       [name |-> "Magnetic Field B",   x |-> Rat(3, 2),  y |-> Rat(5, 2),  unit |-> "T",     symbol |-> "B"],
       [name |-> "Force F",            x |-> IntR(4),    y |-> IntR(1),    unit |-> "N",     symbol |-> "F"],
       [name |-> "Poynting Vector S",  x |-> IntR(2),    y |-> Rat(7, 2),  unit |-> "W/m2",  symbol |-> "S"],
       [name |-> "Wave Propagation k", x |-> Rat(7, 2),  y |-> Rat(-3, 2), unit |-> "rad/m", symbol |-> "k"],
       [name |-> "Antenna Radiation",  x |-> IntR(-2),   y |-> IntR(3),    unit |-> "-",     symbol |-> "G"],
       [name |-> "EM Waves ExB",       x |-> IntR(-3),   y |-> IntR(-2),   unit |-> "-",     symbol |-> "EM"],
       [name |-> "Current Density J",  x |-> IntR(1),    y |-> Rat(-7, 2), unit |-> "A/m2",  symbol |-> "J"],
       [name |-> "Flux Density D",     x |-> Rat(-3, 2), y |-> Rat(-5, 2), unit |-> "C/m2",  symbol |-> "D"] >>

\* dict lookup: the position of the key nm
KeyIndex(data, nm) == CHOOSE i \in 1..Len(data) : data[i].name = nm

\* str(n) for a natural number
RECURSIVE NatStr(_)
NatStr(n) == IF n < 10 THEN <<DigitChars[n + 1]>>
             ELSE Append(NatStr(n \div 10), DigitChars[(n % 10) + 1])

\* the number of decimal places of a denominator dividing a power of ten
DecPlaces(d) == CHOOSE k \in 0..6 : Pow10(k) % d = 0 /\ \A j \in 0..(k - 1) : Pow10(j) % d # 0

\* s, with zeros in front up to k characters
ZFill(s, k) == [i \in 1..(k - Len(s)) |-> "0"] \o s

\* str(v) of a float: sign, integer part, point, the decimal places ("1.0", "-60.0", "2.3")
FloatStr(v) ==
    IF IsNaN(v) THEN <<"n", "a", "n">>
    ELSE IF IsInf(v) THEN (IF v.n < 0 THEN <<"-">> ELSE <<>>) \o <<"i", "n", "f">>
    ELSE LET k  == DecPlaces(v.d)
             ip == Abs(v.n) \div v.d
             fp == ((Abs(v.n) % v.d) * Pow10(k)) \div v.d
         IN  (IF v.n < 0 THEN <<"-">> ELSE <<>>)
             \o NatStr(ip) \o <<".">>
             \o (IF k = 0 THEN <<"0">> ELSE ZFill(NatStr(fp), k))

\* draw_scalar_line(): title and marker of the active scalar
draw_scalar_line(sdata, as) ==
    LET ds == sdata[KeyIndex(sdata, as)]
    IN  [title |-> as, v |-> ds.value,
         text  |-> <<ds.symbol, FloatStr(ds.value), ds.unit>>]

\* draw_vector_grid(): every arrow, and the caption of the active vector
draw_vector_grid(vdata, av) ==
    [arrows |-> [i \in 1..Len(vdata) |-> <<vdata[i].x, vdata[i].y>>],
     active |-> av]

\* draw_scalar_table(): the Value column, or nothing when hidden
draw_scalar_table(sdata, visible) ==
    [visible |-> visible,
     rows    |-> IF visible THEN [i \in 1..Len(sdata) |-> FloatStr(sdata[i].value)] ELSE <<>>]

\* draw_vector_table(): the x and y of every row (before rounding), or nothing
draw_vector_table(vdata, visible) ==
    [visible |-> visible,
     rows    |-> IF visible THEN [i \in 1..Len(vdata) |-> <<vdata[i].x, vdata[i].y>>] ELSE <<>>]

\* the numbers of the panel with 'Magnetic Field B' read in place of
\* 'Electric Field E'
QxE_fieldB(sdata, vdata) ==
    LET Q_val  == sdata[KeyIndex(sdata, "Charge")].value
        E_data == vdata[KeyIndex(vdata, "Magnetic Field B")]
        Q_norm == RDiv(Q_val, IntR(20))
        Fx     == RMul(Q_norm, E_data.x)
        Fy     == RMul(Q_norm, E_data.y)
    IN  [Q_val |-> Q_val, Ex |-> E_data.x, Ey |-> E_data.y, Q_norm |-> Q_norm,
         Fx |-> Fx, Fy |-> Fy, F_mag2 |-> RAdd(RMul(Fx, Fx), RMul(Fy, Fy))]

\* Q_norm, Fx, Fy and F_mag^2 as both Q x E drawing functions compute them
QxE(sdata, vdata) ==
    LET Q_val  == sdata[KeyIndex(sdata, "Charge")].value
        E_data == vdata[KeyIndex(vdata, "Electric Field E")]
        Q_norm == RDiv(Q_val, IntR(20))
        Fx     == RMul(Q_norm, E_data.x)
        Fy     == RMul(Q_norm, E_data.y)
    IN  [Q_val |-> Q_val, Ex |-> E_data.x, Ey |-> E_data.y, Q_norm |-> Q_norm,
         Fx |-> Fx, Fy |-> Fy, F_mag2 |-> RAdd(RMul(Fx, Fx), RMul(Fy, Fy))]

\* draw_qxE(): the force arrow when F_mag > 0.01, else the "F = 0" note
draw_qxE(sdata, vdata) ==
    LET q == QxE(sdata, vdata)
    IN  [Q_val |-> q.Q_val, E |-> <<q.Ex, q.Ey>>, F |-> <<q.Fx, q.Fy>>,
         arrow |-> RLess(Rat(1, 10000), q.F_mag2)]

\* draw_qxE_card(): the numbers of the card and its direction line
draw_qxE_card(sdata, vdata) ==
    LET q == QxE(sdata, vdata)
    IN  [Q_val |-> q.Q_val, Q_norm |-> q.Q_norm, F |-> <<q.Fx, q.Fy>>,
         direction |-> IF IsPos(q.Q_val) THEN "Same direction as E"
                       ELSE IF IsNeg(q.Q_val) THEN "OPPOSITE direction  (Q < 0)"
                       ELSE "Zero vector  (Q = 0)"]

\* update_toggle_labels() with the two flags taken for each other
update_toggle_labels_swap(sv, vv) ==
    [s |-> IF vv THEN "v  Scalar Table" ELSE ">  Scalar Table",
     v |-> IF sv THEN "v  Vector Table" ELSE ">  Vector Table"]

\* update_toggle_labels()
update_toggle_labels(sv, vv) ==
    [s |-> IF sv THEN "v  Scalar Table" ELSE ">  Scalar Table",
     v |-> IF vv THEN "v  Vector Table" ELSE ">  Vector Table"]

redraw_all(sdata, vdata, as, av, sv, vv) ==
    [scalar_line  |-> draw_scalar_line(sdata, as),
     vector_grid  |-> draw_vector_grid(vdata, av),
     scalar_table |-> draw_scalar_table(sdata, sv),
     vector_table |-> draw_vector_table(vdata, vv),
     qxE          |-> draw_qxE(sdata, vdata),
     qxE_card     |-> draw_qxE_card(sdata, vdata),
     toggles      |-> update_toggle_labels(sv, vv)]

NoMsg == [text |-> "", lo |-> 0, hi |-> 0]
NoWin == [open |-> FALSE, sel |-> 0, evar |-> <<>>, msg |-> NoMsg]
NoMag == [shown |-> FALSE, m2 |-> IntR(0)]
NoVWin == [open |-> FALSE, sel |-> 0, xvar |-> <<>>, yvar |-> <<>>,
           mag |-> NoMag, msg |-> NoMsg]

InitSV ==
    /\ SCALAR_DATA = SCALAR_DATA_0
    /\ VECTOR_DATA = VECTOR_DATA_0
    /\ active_scalar = "Charge"
    /\ active_vector = "Electric Field E"
    /\ scalar_table_visible = TRUE
    /\ vector_table_visible = TRUE
    /\ scalar_win = NoWin
    /\ vector_win = NoVWin
    /\ mainloops = 0
    /\ backend = "?"
    /\ drawn = redraw_all(SCALAR_DATA_0, VECTOR_DATA_0, "Charge", "Electric Field E", TRUE, TRUE)

\* the listbox rows the user clicks are the first NSelScalar ones
NSelScalar == 2

\* enter_scalar and enter_vector end in win.mainloop(): the call returns only
\* when that loop does.  At most MaxNest calls are followed.
MaxNest == 2

\* The figure's GUI backend is whatever matplotlib picks on the machine; the
\* first tk.Tk() of an enter_* call meets one of two situations.
\*   "tk"    : the figure is itself a Tk main window.  The nested main loop
\*             serves the figure too and does not return on win.destroy();
\*             the StringVars (made without a master) live in the figure's
\*             interpreter, so text typed into the entries never reaches them.
\*   "other" : the figure is no Tk window.  Its events wait while a Tk main
\*             loop runs; the window is the default root, the entries write
\*             the StringVars, and win.destroy() ends the loop.
Backends == {"tk", "other"}

\* the backend an enter_* call finds: fixed once the first call has met it
MeetBackend == IF backend = "?" THEN Backends ELSE {backend}

\* the figure handles a button click only outside a foreign main loop
FigureListens == backend = "other" => mainloops = 0

\* win.destroy(): Tk's main loop runs while the process has a Tk main window
AfterDestroy == IF backend = "tk" THEN mainloops ELSE mainloops - 1

\* what the user types into the entry
ScalarTexts == { <<"0">>, <<"-", "6", "0">>, <<"2", "0", "0", "0">>,
                 <<"a", "b", "c">>, <<"n", "a", "n">> }

\* on_ok of enter_scalar without the range test
scalar_on_ok_norange(sel, text) ==
    IF sel = 0 THEN [res |-> "rejected", msg |-> [text |-> "Please select a quantity.", lo |-> 0, hi |-> 0]]
    ELSE LET f == PyFloat(text)
         IN  IF ~f.ok
             THEN [res |-> "rejected", msg |-> [text |-> "Invalid number.", lo |-> 0, hi |-> 0]]
             ELSE [res |-> "ok", nm |-> sel, val |-> f.val]

\* on_ok of enter_scalar: what it decides for the selection and the entry text
scalar_on_ok(sel, text) ==
    IF sel = 0 THEN [res |-> "rejected", msg |-> [text |-> "Please select a quantity.", lo |-> 0, hi |-> 0]]
    ELSE LET lo == SCALAR_DATA[sel].range[1]
             hi == SCALAR_DATA[sel].range[2]
             f  == PyFloat(text)
         IN  IF ~f.ok
             THEN [res |-> "rejected", msg |-> [text |-> "Invalid number.", lo |-> 0, hi |-> 0]]
             ELSE IF ~(RLeq(IntR(lo), f.val) /\ RLeq(f.val, IntR(hi)))
             THEN [res |-> "rejected", msg |-> [text |-> "Value must be between", lo |-> lo, hi |-> hi]]
             ELSE [res |-> "ok", nm |-> sel, val |-> f.val]

\* enter_scalar(event), up to win.mainloop(): the window with the active
\* scalar selected and its value in the entry variable
EnterScalar ==
    /\ ~scalar_win.open
    /\ mainloops < MaxNest
    /\ \E b \in MeetBackend :
           /\ b = "other" => mainloops = 0
           /\ backend' = b
    /\ \E i \in {KeyIndex(SCALAR_DATA, active_scalar)} :
           scalar_win' = [open |-> TRUE, sel |-> i,
                          evar |-> FloatStr(SCALAR_DATA[i].value), msg |-> NoMsg]
    /\ mainloops' = mainloops + 1
    /\ UNCHANGED <<SCALAR_DATA, VECTOR_DATA, active_scalar, active_vector,
                   scalar_table_visible, vector_table_visible, vector_win, drawn>>

\* a click on listbox row i: <<ListboxSelect>> runs on_sel
SelectScalarRow(i) ==
    /\ scalar_win.open
    /\ scalar_win' = [scalar_win EXCEPT !.sel = i,
                                        !.evar = FloatStr(SCALAR_DATA[i].value)]
    /\ UNCHANGED <<SCALAR_DATA, VECTOR_DATA, active_scalar, active_vector,
                   scalar_table_visible, vector_table_visible, vector_win,
                   mainloops, backend, drawn>>

SelectScalar == \E i \in 1..NSelScalar : SelectScalarRow(i)

\* a click on the Charge row, the scalar of the Q x E panel
SelectCharge == SelectScalarRow(KeyIndex(SCALAR_DATA, "Charge"))

\* a click on the Voltage (DC) row, a scalar the Q x E panel does not use
SelectVoltage == SelectScalarRow(KeyIndex(SCALAR_DATA, "Voltage (DC)"))

\* the listbox loses the selection (exportselection is on: selecting entry
\* text takes it); on_sel finds no selection and does nothing
DeselectScalar ==
    /\ scalar_win.open
    /\ scalar_win.sel # 0
    /\ scalar_win' = [scalar_win EXCEPT !.sel = 0]
    /\ UNCHANGED <<SCALAR_DATA, VECTOR_DATA, active_scalar, active_vector,
                   scalar_table_visible, vector_table_visible, vector_win,
                   mainloops, backend, drawn>>

\* typing into the entry: the text reaches evar when the entry and evar are
\* in the same interpreter (under "tk" nothing the program reads changes)
TypeScalarOf(texts) ==
    /\ scalar_win.open
    /\ backend = "other"
    /\ \E text \in texts :
           scalar_win' = [scalar_win EXCEPT !.evar = text]
    /\ UNCHANGED <<SCALAR_DATA, VECTOR_DATA, active_scalar, active_vector,
                   scalar_table_visible, vector_table_visible, vector_win,
                   mainloops, backend, drawn>>

TypeScalar == TypeScalarOf(ScalarTexts)

\* texts that are numbers inside the range of Charge and, the first, of
\* Voltage (DC)
PanelScalarTexts == { <<"0">>, <<"-", "6", "0">> }

TypePanelScalar == TypeScalarOf(PanelScalarTexts)

\* the OK button or <Return>: on_ok
OkScalar ==
    /\ scalar_win.open
    /\ \E o \in {scalar_on_ok(scalar_win.sel, scalar_win.evar)} :
           IF o.res = "rejected"
           THEN /\ scalar_win' = [scalar_win EXCEPT !.msg = o.msg]
                /\ UNCHANGED <<SCALAR_DATA, active_scalar, mainloops, drawn>>
           ELSE \E sd \in {[SCALAR_DATA EXCEPT ![o.nm].value = o.val]} :
                    /\ SCALAR_DATA' = sd
                    /\ active_scalar' = sd[o.nm].name
                    /\ scalar_win' = NoWin
                    /\ mainloops' = AfterDestroy
                    /\ drawn' = redraw_all(sd, VECTOR_DATA, sd[o.nm].name, active_vector,
                                           scalar_table_visible, vector_table_visible)
    /\ UNCHANGED <<VECTOR_DATA, active_vector, scalar_table_visible, vector_table_visible,
                   vector_win, backend>>

\* the Cancel button: win.destroy
CancelScalar ==
    /\ scalar_win.open
    /\ scalar_win' = NoWin
    /\ mainloops' = AfterDestroy
    /\ UNCHANGED <<SCALAR_DATA, VECTOR_DATA, active_scalar, active_vector,
                   scalar_table_visible, vector_table_visible, vector_win,
                   backend, drawn>>

\* the vector listbox rows the user clicks are the first NSelVector ones
NSelVector == 1

\* what the user types into the X and Y entries before pressing OK
VectorTexts == { << <<"0">>, <<"0">> >>,
                 << <<"0">>, <<"2", ".", "0">> >>,
                 << <<"-", "6">>, <<"6">> >>,
                 << <<"6", ".", "5">>, <<"0">> >>,
                 << <<"2">>, <<"-", "7">> >>,
                 << <<"0">>, <<"a", "b", "c">> >> }

\* upd_mag: |v|^2 of the two texts, or an empty label when float() raises
upd_mag(xt, yt) ==
    LET fx == PyFloat(xt)
        fy == PyFloat(yt)
    IN  IF fx.ok /\ fy.ok
        THEN [shown |-> TRUE, m2 |-> RAdd(RMul(fx.val, fx.val), RMul(fy.val, fy.val))]
        ELSE NoMag

\* -6 <= v <= 6
InSix(v) == RLeq(IntR(-6), v) /\ RLeq(v, IntR(6))

\* on_ok of enter_vector with the test of the y component left out
vector_on_ok_xonly(sel, xt, yt) ==
    IF sel = 0 THEN [res |-> "rejected", msg |-> [text |-> "Please select a quantity.", lo |-> 0, hi |-> 0]]
    ELSE LET fx == PyFloat(xt)
             fy == PyFloat(yt)
         IN  IF ~(fx.ok /\ fy.ok)
             THEN [res |-> "rejected", msg |-> [text |-> "Invalid number.", lo |-> 0, hi |-> 0]]
             ELSE IF ~InSix(fx.val)
             THEN [res |-> "rejected", msg |-> [text |-> "Both components must be", lo |-> -6, hi |-> 6]]
             ELSE [res |-> "ok", nm |-> sel, vx |-> fx.val, vy |-> fy.val]

\* on_ok of enter_vector storing an out-of-range component at the nearer end
\* of [-6, 6] instead of refusing it
ClampSix(v) == IF RLeq(v, IntR(-6)) THEN IntR(-6) ELSE IF RLeq(IntR(6), v) THEN IntR(6) ELSE v

vector_on_ok_clamp(sel, xt, yt) ==
    IF sel = 0 THEN [res |-> "rejected", msg |-> [text |-> "Please select a quantity.", lo |-> 0, hi |-> 0]]
    ELSE LET fx == PyFloat(xt)
             fy == PyFloat(yt)
         IN  IF ~(fx.ok /\ fy.ok)
             THEN [res |-> "rejected", msg |-> [text |-> "Invalid number.", lo |-> 0, hi |-> 0]]
             ELSE [res |-> "ok", nm |-> sel, vx |-> ClampSix(fx.val), vy |-> ClampSix(fy.val)]

\* on_ok of enter_vector storing into the first row whatever row is selected
vector_on_ok_first(sel, xt, yt) ==
    IF sel = 0 THEN [res |-> "rejected", msg |-> [text |-> "Please select a quantity.", lo |-> 0, hi |-> 0]]
    ELSE LET fx == PyFloat(xt)
             fy == PyFloat(yt)
         IN  IF ~(fx.ok /\ fy.ok)
             THEN [res |-> "rejected", msg |-> [text |-> "Invalid number.", lo |-> 0, hi |-> 0]]
             ELSE IF ~InSix(fx.val) \/ ~InSix(fy.val)
             THEN [res |-> "rejected", msg |-> [text |-> "Both components must be", lo |-> -6, hi |-> 6]]
             ELSE [res |-> "ok", nm |-> 1, vx |-> fx.val, vy |-> fy.val]

\* on_ok of enter_vector: what it decides for the selection and the two texts
vector_on_ok(sel, xt, yt) ==
    IF sel = 0 THEN [res |-> "rejected", msg |-> [text |-> "Please select a quantity.", lo |-> 0, hi |-> 0]]
    ELSE LET fx == PyFloat(xt)
             fy == PyFloat(yt)
         IN  IF ~(fx.ok /\ fy.ok)
             THEN [res |-> "rejected", msg |-> [text |-> "Invalid number.", lo |-> 0, hi |-> 0]]
             ELSE IF ~InSix(fx.val) \/ ~InSix(fy.val)
             THEN [res |-> "rejected", msg |-> [text |-> "Both components must be", lo |-> -6, hi |-> 6]]
             ELSE [res |-> "ok", nm |-> sel, vx |-> fx.val, vy |-> fy.val]

\* enter_vector(event), up to win.mainloop(): the window with the active
\* vector selected and its components in xvar and yvar
EnterVector ==
    /\ ~vector_win.open
    /\ mainloops < MaxNest
    /\ \E b \in MeetBackend :
           /\ b = "other" => mainloops = 0
           /\ backend' = b
    /\ \E i \in {KeyIndex(VECTOR_DATA, active_vector)} :
       \E xt \in {FloatStr(VECTOR_DATA[i].x)} : \E yt \in {FloatStr(VECTOR_DATA[i].y)} :
           vector_win' = [open |-> TRUE, sel |-> i, xvar |-> xt, yvar |-> yt,
                          mag |-> upd_mag(xt, yt), msg |-> NoMsg]
    /\ mainloops' = mainloops + 1
    /\ UNCHANGED <<SCALAR_DATA, VECTOR_DATA, active_scalar, active_vector,
                   scalar_table_visible, vector_table_visible, scalar_win, drawn>>

\* a click on listbox row i: <<ListboxSelect>> runs on_sel
SelectVectorRow(i) ==
    /\ vector_win.open
    /\ \E xt \in {FloatStr(VECTOR_DATA[i].x)} : \E yt \in {FloatStr(VECTOR_DATA[i].y)} :
           vector_win' = [vector_win EXCEPT !.sel = i, !.xvar = xt, !.yvar = yt,
                                            !.mag = upd_mag(xt, yt)]
    /\ UNCHANGED <<SCALAR_DATA, VECTOR_DATA, active_scalar, active_vector,
                   scalar_table_visible, vector_table_visible, scalar_win,
                   mainloops, backend, drawn>>

SelectVector == \E i \in 1..NSelVector : SelectVectorRow(i)

\* a click on the Electric Field E row, the vector of the Q x E panel
SelectField == SelectVectorRow(KeyIndex(VECTOR_DATA, "Electric Field E"))

\* a click on the Magnetic Field B row, a vector the Q x E panel does not use
SelectFieldB == SelectVectorRow(KeyIndex(VECTOR_DATA, "Magnetic Field B"))

\* the listbox loses the selection; on_sel finds none and does nothing
DeselectVector ==
    /\ vector_win.open
    /\ vector_win.sel # 0
    /\ vector_win' = [vector_win EXCEPT !.sel = 0]
    /\ UNCHANGED <<SCALAR_DATA, VECTOR_DATA, active_scalar, active_vector,
                   scalar_table_visible, vector_table_visible, scalar_win,
                   mainloops, backend, drawn>>

\* typing into the two entries: as for evar, the texts reach xvar and yvar,
\* and their write traces run upd_mag, only under "other"
TypeVectorOf(texts) ==
    /\ vector_win.open
    /\ backend = "other"
    /\ \E t \in texts :
           vector_win' = [vector_win EXCEPT !.xvar = t[1], !.yvar = t[2],
                                            !.mag = upd_mag(t[1], t[2])]
    /\ UNCHANGED <<SCALAR_DATA, VECTOR_DATA, active_scalar, active_vector,
                   scalar_table_visible, vector_table_visible, scalar_win,
                   mainloops, backend, drawn>>

TypeVector == TypeVectorOf(VectorTexts)

\* pairs of texts that are numbers inside [-6, 6]
PanelVectorTexts == { << <<"0">>, <<"0">> >>, << <<"-", "6">>, <<"6">> >> }

TypePanelVector == TypeVectorOf(PanelVectorTexts)

\* the OK button or <Return>: on_ok
OkVector ==
    /\ vector_win.open
    /\ \E o \in {vector_on_ok(vector_win.sel, vector_win.xvar, vector_win.yvar)} :
           IF o.res = "rejected"
           THEN /\ vector_win' = [vector_win EXCEPT !.msg = o.msg]
                /\ UNCHANGED <<VECTOR_DATA, active_vector, mainloops, drawn>>
           ELSE \E vd \in {[VECTOR_DATA EXCEPT ![o.nm].x = o.vx, ![o.nm].y = o.vy]} :
                    /\ VECTOR_DATA' = vd
                    /\ active_vector' = vd[o.nm].name
                    /\ vector_win' = NoVWin
                    /\ mainloops' = AfterDestroy
                    /\ drawn' = redraw_all(SCALAR_DATA, vd, active_scalar, vd[o.nm].name,
                                           scalar_table_visible, vector_table_visible)
    /\ UNCHANGED <<SCALAR_DATA, active_scalar, scalar_table_visible, vector_table_visible,
                   scalar_win, backend>>

\* the Cancel button: win.destroy
CancelVector ==
    /\ vector_win.open
    /\ vector_win' = NoVWin
    /\ mainloops' = AfterDestroy
    /\ UNCHANGED <<SCALAR_DATA, VECTOR_DATA, active_scalar, active_vector,
                   scalar_table_visible, vector_table_visible, scalar_win,
                   backend, drawn>>

\* toggle_scalar_table(event): a click on the figure's button
toggle_scalar_table ==
    /\ FigureListens
    /\ scalar_table_visible' = ~scalar_table_visible
    /\ drawn' = redraw_all(SCALAR_DATA, VECTOR_DATA, active_scalar, active_vector,
                           ~scalar_table_visible, vector_table_visible)
    /\ UNCHANGED <<SCALAR_DATA, VECTOR_DATA, active_scalar, active_vector,
                   vector_table_visible, scalar_win, vector_win, mainloops, backend>>

toggle_vector_table ==
    /\ FigureListens
    /\ vector_table_visible' = ~vector_table_visible
    /\ drawn' = redraw_all(SCALAR_DATA, VECTOR_DATA, active_scalar, active_vector,
                           scalar_table_visible, ~vector_table_visible)
    /\ UNCHANGED <<SCALAR_DATA, VECTOR_DATA, active_scalar, active_vector,
                   scalar_table_visible, scalar_win, vector_win, mainloops, backend>>

\* the Enter-Scalar window and the toggles
NextSV ==
    (\/ EnterScalar \/ SelectScalar \/ DeselectScalar \/ TypeScalar
     \/ OkScalar \/ CancelScalar
     \/ toggle_scalar_table \/ toggle_vector_table)
        /\ UNCHANGED <<dvars, cvars, kvlvars, kclvars, vvvars>>

\* the Enter-Vector window and the toggles
NextSVVec ==
    (\/ EnterVector \/ SelectVector \/ DeselectVector \/ TypeVector
     \/ OkVector \/ CancelVector
     \/ toggle_scalar_table \/ toggle_vector_table)
        /\ UNCHANGED <<dvars, cvars, kvlvars, kclvars, vvvars>>

\* both windows and the toggles, for the two quantities of the Q x E panel
NextQxE ==
    (\/ EnterScalar \/ SelectCharge \/ DeselectScalar \/ TypeScalar
     \/ OkScalar \/ CancelScalar
     \/ EnterVector \/ SelectField \/ DeselectVector \/ TypeVector
     \/ OkVector \/ CancelVector
     \/ toggle_scalar_table \/ toggle_vector_table)
        /\ UNCHANGED <<dvars, cvars, kvlvars, kclvars, vvvars>>

\* both windows and the toggles, for the two quantities of the Q x E panel
\* and one more quantity of each kind
NextPanel ==
    (\/ EnterScalar \/ SelectCharge \/ SelectVoltage \/ TypePanelScalar
     \/ OkScalar \/ CancelScalar
     \/ EnterVector \/ SelectField \/ SelectFieldB \/ TypePanelVector
     \/ OkVector \/ CancelVector
     \/ toggle_scalar_table \/ toggle_vector_table)
        /\ UNCHANGED <<dvars, cvars, kvlvars, kclvars, vvvars>>

(***************************************************************************)
(* sv-v&v.py : DualVectorVisualizer                                        *)
(***************************************************************************)
\* f"{x:.1f}", f"{x:.2f}": the multiple of 1/p nearest to x, a tie going to
\* the even multiple (x finite)
RoundTo(x, p) ==
    LET k    == (x.n * p) \div x.d
        rem2 == 2 * ((x.n * p) % x.d)
    IN  IF rem2 > x.d THEN Rat(k + 1, p)
        ELSE IF rem2 < x.d THEN Rat(k, p)
        ELSE IF k % 2 = 0 THEN Rat(k, p) ELSE Rat(k + 1, p)

\* np.dot(v1, v2) and np.cross(v1, v2) of two 2-vectors
Dot(v1, v2)   == RAdd(RMul(v1[1], v2[1]), RMul(v1[2], v2[2]))
Cross(v1, v2) == RSub(RMul(v1[1], v2[2]), RMul(v1[2], v2[1]))

\* the positions the sliders are dragged to: sigma within [-3, 3], the
\* components within [-5, 5]
SigmaVals == { IntR(-3), Rat(-1, 2), IntR(0), Rat(3, 2), IntR(3) }
LeftVals  == { IntR(-5), IntR(-1), IntR(0), IntR(1), IntR(2) }
RightVals == { IntR(-1), IntR(0), Rat(1, 10), Rat(1, 3), Rat(1, 2), IntR(1), IntR(3) }

Modes == {"Dot Product", "Cross Product"}

\* draw_left() with the result scaled by |sigma|
draw_left_abs(sigma, ex, ey) ==
    [V_in  |-> <<ex, ey>>,
     V_out |-> <<RMul(RAbs(sigma), ex), RMul(RAbs(sigma), ey)>>,
     label |-> RoundTo(sigma, 10)]

\* draw_left(): the two arrows and the factor of the label and of the text
draw_left(sigma, ex, ey) ==
    [V_in  |-> <<ex, ey>>,
     V_out |-> <<RMul(sigma, ex), RMul(sigma, ey)>>,
     label |-> RoundTo(sigma, 10)]

\* draw_right() with cross_z computed as v1x*v2y + v1y*v2x
draw_right_plus(mode, v1, v2) ==
    IF mode = "Dot Product"
    THEN \* np.dot(v1, v2), the colour, the projection of v1 on v2
         LET dot == Dot(v1, v2)
             n2  == Dot(v2, v2)
         IN  [mode |-> mode, v1 |-> v1, v2 |-> v2,
              value |-> RoundTo(dot, 100),
              res_col |-> IF RLeq(IntR(0), dot) THEN "res" ELSE "neg",
              dir_str |-> "", marker |-> "", msize |-> IntR(0),
              proj |-> IF IsPos(n2)
                       THEN <<RMul(RDiv(dot, n2), v2[1]), RMul(RDiv(dot, n2), v2[2])>>
                       ELSE <<>>]
    ELSE LET cross_z == RAdd(RMul(v1[1], v2[2]), RMul(v1[2], v2[1]))
             twice   == RMul(IntR(2), RAbs(cross_z))
         IN  [mode |-> mode, v1 |-> v1, v2 |-> v2,
              value |-> RoundTo(cross_z, 100),
              res_col |-> IF RLeq(IntR(0), cross_z) THEN "res" ELSE "neg",
              dir_str |-> IF RLess(RAbs(cross_z), Rat(1, 10)) THEN "Zero"
                          ELSE IF IsPos(cross_z) THEN "OUT of page" ELSE "INTO page",
              marker |-> IF IsPos(cross_z) THEN "o" ELSE "x",
              msize |-> RAdd(IntR(10), IF RLess(twice, IntR(40)) THEN twice ELSE IntR(40)),
              proj |-> <<>>]

\* draw_right() with the colour test of the dot product made strict
draw_right_strict(mode, v1, v2) ==
    IF mode = "Dot Product"
    THEN LET dot == Dot(v1, v2)
             n2  == Dot(v2, v2)
         IN  [mode |-> mode, v1 |-> v1, v2 |-> v2,
              value |-> RoundTo(dot, 100),
              res_col |-> IF IsPos(dot) THEN "res" ELSE "neg",
              dir_str |-> "", marker |-> "", msize |-> IntR(0),
              proj |-> IF IsPos(n2)
                       THEN <<RMul(RDiv(dot, n2), v2[1]), RMul(RDiv(dot, n2), v2[2])>>
                       ELSE <<>>]
    ELSE LET cross_z == Cross(v1, v2)
             twice   == RMul(IntR(2), RAbs(cross_z))
         IN  [mode |-> mode, v1 |-> v1, v2 |-> v2,
              value |-> RoundTo(cross_z, 100),
              res_col |-> IF RLeq(IntR(0), cross_z) THEN "res" ELSE "neg",
              dir_str |-> IF RLess(RAbs(cross_z), Rat(1, 10)) THEN "Zero"
                          ELSE IF IsPos(cross_z) THEN "OUT of page" ELSE "INTO page",
              marker |-> IF IsPos(cross_z) THEN "o" ELSE "x",
              msize |-> RAdd(IntR(10), IF RLess(twice, IntR(40)) THEN twice ELSE IntR(40)),
              proj |-> <<>>]

\* draw_right(): what the right plot and its text box show for the mode
draw_right(mode, v1, v2) ==
    IF mode = "Dot Product"
    THEN \* np.dot(v1, v2), the colour, the projection of v1 on v2
         LET dot == Dot(v1, v2)
             n2  == Dot(v2, v2)
         IN  [mode |-> mode, v1 |-> v1, v2 |-> v2,
              value |-> RoundTo(dot, 100),
              res_col |-> IF RLeq(IntR(0), dot) THEN "res" ELSE "neg",
              dir_str |-> "", marker |-> "", msize |-> IntR(0),
              proj |-> IF IsPos(n2)
                       THEN <<RMul(RDiv(dot, n2), v2[1]), RMul(RDiv(dot, n2), v2[2])>>
                       ELSE <<>>]
    ELSE \* np.cross(v1, v2), the colour, the direction text, the marker
         LET cross_z == Cross(v1, v2)
             twice   == RMul(IntR(2), RAbs(cross_z))
         IN  [mode |-> mode, v1 |-> v1, v2 |-> v2,
              value |-> RoundTo(cross_z, 100),
              res_col |-> IF RLeq(IntR(0), cross_z) THEN "res" ELSE "neg",
              dir_str |-> IF RLess(RAbs(cross_z), Rat(1, 10)) THEN "Zero"
                          ELSE IF IsPos(cross_z) THEN "OUT of page" ELSE "INTO page",
              marker |-> IF IsPos(cross_z) THEN "o" ELSE "x",
              msize |-> RAdd(IntR(10), IF RLess(twice, IntR(40)) THEN twice ELSE IntR(40)),
              proj |-> <<>>]

\* update(val) for the slider values and the radio selection of the next state
VVUpdate(sigma, ex, ey, v1x, v1y, v2x, v2y, mode) ==
    /\ left_plot' = draw_left(sigma, ex, ey)
    /\ right_plot' = draw_right(mode, <<v1x, v1y>>, <<v2x, v2y>>)

\* __init__: the sliders at their valinit, 'Dot Product' active, update(None)
InitVV ==
    /\ sl_sigma = Rat(3, 2) /\ sl_ex = IntR(2) /\ sl_ey = IntR(1)
    /\ sl_v1x = IntR(3) /\ sl_v1y = IntR(1) /\ sl_v2x = IntR(-1) /\ sl_v2y = IntR(3)
    /\ radio = "Dot Product"
    /\ left_plot = draw_left(Rat(3, 2), IntR(2), IntR(1))
    /\ right_plot = draw_right("Dot Product", <<IntR(3), IntR(1)>>, <<IntR(-1), IntR(3)>>)

\* a slider is dragged: its on_changed observer is update
SetSigma ==
    \E v \in SigmaVals :
        /\ sl_sigma' = v
        /\ UNCHANGED <<sl_ex, sl_ey, sl_v1x, sl_v1y, sl_v2x, sl_v2y, radio>>
        /\ VVUpdate(v, sl_ex, sl_ey, sl_v1x, sl_v1y, sl_v2x, sl_v2y, radio)

SetEx ==
    \E v \in LeftVals :
        /\ sl_ex' = v
        /\ UNCHANGED <<sl_sigma, sl_ey, sl_v1x, sl_v1y, sl_v2x, sl_v2y, radio>>
        /\ VVUpdate(sl_sigma, v, sl_ey, sl_v1x, sl_v1y, sl_v2x, sl_v2y, radio)

SetEy ==
    \E v \in LeftVals :
        /\ sl_ey' = v
        /\ UNCHANGED <<sl_sigma, sl_ex, sl_v1x, sl_v1y, sl_v2x, sl_v2y, radio>>
        /\ VVUpdate(sl_sigma, sl_ex, v, sl_v1x, sl_v1y, sl_v2x, sl_v2y, radio)

SetV1x ==
    \E v \in RightVals :
        /\ sl_v1x' = v
        /\ UNCHANGED <<sl_sigma, sl_ex, sl_ey, sl_v1y, sl_v2x, sl_v2y, radio>>
        /\ VVUpdate(sl_sigma, sl_ex, sl_ey, v, sl_v1y, sl_v2x, sl_v2y, radio)

SetV1y ==
    \E v \in RightVals :
        /\ sl_v1y' = v
        /\ UNCHANGED <<sl_sigma, sl_ex, sl_ey, sl_v1x, sl_v2x, sl_v2y, radio>>
        /\ VVUpdate(sl_sigma, sl_ex, sl_ey, sl_v1x, v, sl_v2x, sl_v2y, radio)

SetV2x ==
    \E v \in RightVals :
        /\ sl_v2x' = v
        /\ UNCHANGED <<sl_sigma, sl_ex, sl_ey, sl_v1x, sl_v1y, sl_v2y, radio>>
        /\ VVUpdate(sl_sigma, sl_ex, sl_ey, sl_v1x, sl_v1y, v, sl_v2y, radio)

SetV2y ==
    \E v \in RightVals :
        /\ sl_v2y' = v
        /\ UNCHANGED <<sl_sigma, sl_ex, sl_ey, sl_v1x, sl_v1y, sl_v2x, radio>>
        /\ VVUpdate(sl_sigma, sl_ex, sl_ey, sl_v1x, sl_v1y, sl_v2x, v, radio)

\* a click on a radio button: its on_clicked observer is update
ClickRadio ==
    \E m \in Modes :
        /\ radio' = m
        /\ UNCHANGED <<sl_sigma, sl_ex, sl_ey, sl_v1x, sl_v1y, sl_v2x, sl_v2y>>
        /\ VVUpdate(sl_sigma, sl_ex, sl_ey, sl_v1x, sl_v1y, sl_v2x, sl_v2y, m)

\* the sliders of the left plot
NextVVLeft ==
    (SetSigma \/ SetEx \/ SetEy)
        /\ UNCHANGED <<dvars, cvars, kvlvars, kclvars, svvars>>

\* the sliders of the right plot and the mode switch
NextVVRight ==
    (SetV1x \/ SetV1y \/ SetV2x \/ SetV2y \/ ClickRadio)
        /\ UNCHANGED <<dvars, cvars, kvlvars, kclvars, svvars>>

Init == InitDiscrete /\ InitRGB /\ InitKVL /\ InitKCL /\ InitSV /\ InitVV

SpecDiscrete == Init /\ [][NextDiscrete]_vars

SpecRGB == Init /\ [][NextRGB]_vars

SpecKVL == Init /\ [][NextKVL]_vars

SpecKCL == Init /\ [][NextKCL]_vars

SpecSet == Init /\ [][NextSet]_vars

SpecBalance == Init /\ [][NextBalance]_vars

SpecSV == Init /\ [][NextSV]_vars

SpecSVVec == Init /\ [][NextSVVec]_vars

SpecQxE == Init /\ [][NextQxE]_vars

SpecPanel == Init /\ [][NextPanel]_vars

SpecVVLeft == Init /\ [][NextVVLeft]_vars

SpecVVRight == Init /\ [][NextVVRight]_vars

(***************************************************************************)
(* Claims about the discrete signal applet                                 *)
(***************************************************************************)
Max(i, j) == IF i > j THEN i ELSE j

\* A step in which _update replaced the display.
UpdateDone == last'.res = "ok" /\ <<fig, matrix, last>>' # <<fig, matrix, last>>

\* a2 is a followed only by zeros, and is k long.
PaddedTo(a, a2, k) ==
    /\ Len(a2) = k
    /\ Len(a) <= k
    /\ SubSeq(a2, 1, Len(a)) = a
    /\ \A i \in (Len(a) + 1)..k : a2[i] = IntR(0)

\* C1: pad_to_same returns two arrays of length max(len(a), len(b)); each is
\* its original samples in order followed only by zeros (so the longer one,
\* and both when the lengths are equal, are unchanged).  [4,7,2] and [2,3]
\* give [2,3,0] and the sum [6,10,2].
C1_PadToSame ==
    [][UpdateDone =>
         \A a \in {parse_array(x1_var').vals} :
         \A b \in {parse_array(x2_var').vals} :
         \A e \in {Solve(<<IntR(4), IntR(7), IntR(2)>>, <<IntR(2), IntR(3)>>, 0)} :
             /\ PaddedTo(a, fig'.x1, Max(Len(a), Len(b)))
             /\ PaddedTo(b, fig'.x2, Max(Len(a), Len(b)))
             /\ e.x1 = <<IntR(4), IntR(7), IntR(2)>>
             /\ e.x2 = <<IntR(2), IntR(3), IntR(0)>>
             /\ e.add = <<IntR(6), IntR(10), IntR(2)>>]_vars

\* C1 witness: a display whose x1 was padded with two zeros (x1 has one
\* sample, x2 three).
C1_Witness ==
    /\ last.res = "ok"
    /\ fig.state = "drawn"
    /\ parse_array(x1_var).ok
    /\ parse_array(x2_var).ok
    /\ Len(parse_array(x1_var).vals) = 1
    /\ Len(parse_array(x2_var).vals) = 3
    /\ fig.x1 = parse_array(x1_var).vals \o <<IntR(0), IntR(0)>>
    /\ fig.x2 = parse_array(x2_var).vals

\* C2: the displayed sum and product are those of the swapped inputs, and
\* the displayed difference is the negated difference of the swapped inputs.
C2_SwapInputs ==
    [][UpdateDone =>
         \A s \in {Solve(parse_array(x2_var').vals, parse_array(x1_var').vals,
                         PyInt(n0_var').val)} :
             /\ fig'.add = s.add
             /\ fig'.mul = s.mul
             /\ Len(fig'.sub) = Len(s.sub)
             /\ \A i \in 1..Len(s.sub) : fig'.sub[i] = RNeg(s.sub[i])]_vars

\* C2 witness: a display of two inputs of unequal length with a nonzero
\* difference.
C2_Witness ==
    /\ last.res = "ok"
    /\ fig.state = "drawn"
    /\ parse_array(x1_var).ok
    /\ parse_array(x2_var).ok
    /\ Len(parse_array(x1_var).vals) = 1
    /\ Len(parse_array(x2_var).vals) = 2
    /\ Len(fig.sub) = 2
    /\ fig.sub[1] # IntR(0)
    /\ fig.sub[2] # IntR(0)

\* C3: a Compute press (the fields stay as they are) on fields that do not
\* parse reports the error and leaves figure and matrix as they were.
C3_ParseErrorKeepsDisplay ==
    [][(UNCHANGED <<x1_var, x2_var, n0_var>>
          /\ ~ParseInputs(x1_var, x2_var, n0_var).ok)
       => /\ fig' = fig
          /\ matrix' = matrix
          /\ last' = [ev |-> "compute", res |-> "error"]]_vars

\* C3 witness: an error was reported for a start index that is no integer
\* literal while both sequences parse, and the old display is still there.
C3_Witness ==
    /\ last = [ev |-> "compute", res |-> "error"]
    /\ parse_array(x1_var).ok
    /\ parse_array(x2_var).ok
    /\ ~PyInt(n0_var).ok
    /\ fig.state = "drawn"
    /\ matrix # <<>>

\* C4 (as claimed): every call of _update ends in a complete update or in a
\* reported error; no exception leaves the callback and the figure is never
\* left cleared beside the previous matrix.
C4_AllOrNothing ==
    /\ last.res \in {"ok", "error"}
    /\ fig.state = "drawn"
    /\ matrix = MatrixRows(fig)

\* C17: whenever the applet is idle, the sum, the difference and the product
\* on display are those of the current contents of the three input fields
\* (for contents that parse): a change of a field re-runs the computation.
C17_DisplayFollowsInputs ==
    \A p \in {ParseInputs(x1_var, x2_var, n0_var)} :
        p.ok =>
            \A r \in {Solve(p.x1, p.x2, p.n0)} :
                fig.add = r.add /\ fig.sub = r.sub /\ fig.mul = r.mul

\* C18: a Compute that succeeds replaces the whole output: the five plotted
\* sequences and the matrix come from the texts of the three fields, the
\* matrix has exactly N = max(len(x1), len(x2)) rows, row i is the sample of
\* index n0 + i - 1, and nothing of the earlier matrix or figure remains.
C18_WholeOutputReplaced ==
    [][(Compute /\ last'.res = "ok") =>
         \A p \in {ParseInputs(x1_var, x2_var, n0_var)} :
         \A N \in {Max(Len(p.x1), Len(p.x2))} :
             /\ fig'.state = "drawn"
             /\ Len(matrix') = N
             /\ PaddedTo(p.x1, fig'.x1, N) /\ PaddedTo(p.x2, fig'.x2, N)
             /\ Len(fig'.n) = N /\ Len(fig'.add) = N
             /\ Len(fig'.sub) = N /\ Len(fig'.mul) = N
             /\ \A i \in 1..N :
                    /\ fig'.n[i] = p.n0 + i - 1
                    /\ fig'.add[i] = RAdd(fig'.x1[i], fig'.x2[i])
                    /\ fig'.sub[i] = RSub(fig'.x1[i], fig'.x2[i])
                    /\ fig'.mul[i] = RMul(fig'.x1[i], fig'.x2[i])
                    /\ matrix'[i] = [n |-> fig'.n[i], x1 |-> fig'.x1[i], x2 |-> fig'.x2[i],
                                     add |-> fig'.add[i], sub |-> fig'.sub[i],
                                     mul |-> fig'.mul[i]]
      ]_vars

\* C18 witness: after the three rows of the start, a Compute of x1 = "4" and
\* x2 = "[5 -1]" from n0 = -1 has succeeded: two rows, for n = -1 and n = 0.
C18_Witness ==
    /\ last = [ev |-> "compute", res |-> "ok"]
    /\ x1_var = <<"4">>
    /\ x2_var = <<"[", "5", " ", "-", "1", "]">>
    /\ n0_var = <<" ", "-", "1">>
    /\ Len(matrix) = 2
    /\ matrix[1].n = -1 /\ matrix[1].add = IntR(9)
    /\ matrix[2].n = 0 /\ matrix[2].x1 = IntR(0) /\ matrix[2].sub = IntR(1)

\* C25: from whatever state, a Reset sets the fields to '4, 7, 2', '2, 3, 7'
\* and '0' and recomputes: figure and matrix are those of the start, with
\* add = [6, 10, 9], sub = [2, 4, -5] and mul = [8, 21, 14] at n = 0, 1, 2.
C25_ResetRestoresStart ==
    [][Reset =>
         \A r \in {Solve(<<IntR(4), IntR(7), IntR(2)>>, <<IntR(2), IntR(3), IntR(7)>>, 0)} :
             /\ x1_var' = <<"4", ",", " ", "7", ",", " ", "2">>
             /\ x2_var' = <<"2", ",", " ", "3", ",", " ", "7">>
             /\ n0_var' = <<"0">>
             /\ fig' = DrawnFig(r)
             /\ matrix' = MatrixRows(r)
             /\ fig'.n = <<0, 1, 2>>
             /\ fig'.add = <<IntR(6), IntR(10), IntR(9)>>
             /\ fig'.sub = <<IntR(2), IntR(4), IntR(-5)>>
             /\ fig'.mul = <<IntR(8), IntR(21), IntR(14)>>
             /\ Len(matrix') = 3
             /\ \A i \in 1..3 : /\ matrix'[i].n = i - 1
                                /\ matrix'[i].add = fig'.add[i]
                                /\ matrix'[i].sub = fig'.sub[i]
                                /\ matrix'[i].mul = fig'.mul[i]
      ]_vars

\* C25 witness: the display is the one of the start again, put there by a
\* Reset.
C25_Witness ==
    /\ last = [ev |-> "reset", res |-> "ok"]
    /\ x1_var = <<"4", ",", " ", "7", ",", " ", "2">>
    /\ x2_var = <<"2", ",", " ", "3", ",", " ", "7">>
    /\ n0_var = <<"0">>
    /\ fig.state = "drawn"
    /\ fig.add = <<IntR(6), IntR(10), IntR(9)>>
    /\ Len(matrix) = 3

(***************************************************************************)
(* Claims about the colour applet                                          *)
(***************************************************************************)
\* The squared distance of the sliders to table entry i.
DistTo(i) == SqDist(red, green, blue, COLOR_DB[i])

\* C5: the displayed name is that of a table entry at minimal distance from
\* the slider values, and of the first such entry in table order.
C5_NearestFirst ==
    /\ label.r = red /\ label.g = green /\ label.b = blue
    /\ \E i \in 1..Len(COLOR_DB) :
          /\ label.name = COLOR_DB[i].name
          /\ \A j \in 1..Len(COLOR_DB) : DistTo(i) <= DistTo(j)
          /\ \A j \in 1..(i - 1) : DistTo(j) > DistTo(i)

\* C5 witness: two entries are at the same, minimal distance (Black and
\* Navy from (0, 0, 64)) and the earlier one is shown.
C5_Witness ==
    /\ red = 0 /\ green = 0 /\ blue = 64
    /\ DistTo(12) = DistTo(17)
    /\ \A j \in 1..Len(COLOR_DB) : DistTo(12) <= DistTo(j)
    /\ label.name = "Black"

\* C6: at the RGB triple of a table entry the entry's own name is shown,
\* and no two entries have the same triple.
C6_ExactEntries ==
    /\ \A i \in 1..Len(COLOR_DB) :
          (red = COLOR_DB[i].r /\ green = COLOR_DB[i].g /\ blue = COLOR_DB[i].b)
              => (label.name = COLOR_DB[i].name /\ DistTo(i) = 0)
    /\ \A i, j \in 1..Len(COLOR_DB) :
          (COLOR_DB[i].r = COLOR_DB[j].r /\ COLOR_DB[i].g = COLOR_DB[j].g
             /\ COLOR_DB[i].b = COLOR_DB[j].b) => i = j

\* C6 witness: the sliders stand at the triple of Sky Blue, which is shown.
C6_Witness ==
    /\ red = 135 /\ green = 206 /\ blue = 235
    /\ label.name = "Sky Blue"
    /\ label.hex = <<"#", "8", "7", "c", "e", "e", "b">>

\* C20: after any slider moves the name, the triple, the hex string and the
\* preview colour on display are those of the current slider values alone:
\* the name is closest_color(r, g, b), whatever moves led there; with the
\* sliders at (0, 0, 0), as at the start, the name is 'Black'.
C20_DisplayOfCurrentSliders ==
    /\ label = [r |-> red, g |-> green, b |-> blue, hex |-> HexColor(red, green, blue),
                name |-> closest_color(red, green, blue)]
    /\ preview = label.hex
    /\ (red = 0 /\ green = 0 /\ blue = 0) => label.name = "Black"

\* C20 witness: all three sliders have left 0 and stand at (64, 128, 192),
\* a position six orders of moves lead to; 'Gray' and #4080c0 are shown.
C20_Witness ==
    /\ red = 64 /\ green = 128 /\ blue = 192
    /\ label.name = "Gray"
    /\ preview = <<"#", "4", "0", "8", "0", "c", "0">>

(***************************************************************************)
(* Claims about the Kirchhoff applet                                       *)
(***************************************************************************)
\* C7: for the current slider values of the KVL tab the displayed values
\* satisfy I * (R1 + R2 + R3) = Vs, Vi = I * Ri and Vs - V1 - V2 - V3 = 0;
\* at the defaults I = 12/450 A and the drops are 8/3 V, 16/3 V and 4 V.
C7_KVLDisplay ==
    /\ kvl_out.res = "ok"
    /\ RMul(kvl_out.I, RAdd(RAdd(kvl_r1, kvl_r2), kvl_r3)) = kvl_vs
    /\ kvl_out.V1 = RMul(kvl_out.I, kvl_r1)
    /\ kvl_out.V2 = RMul(kvl_out.I, kvl_r2)
    /\ kvl_out.V3 = RMul(kvl_out.I, kvl_r3)
    /\ RAdd(RAdd(kvl_out.V1, kvl_out.V2), kvl_out.V3) = kvl_vs
    /\ kvl_out.check = IntR(0)
    /\ (kvl_vs = IntR(12) /\ kvl_r1 = IntR(100) /\ kvl_r2 = IntR(200)
          /\ kvl_r3 = IntR(150))
        => /\ kvl_out.I = Rat(12, 450)
           /\ kvl_out.V1 = Rat(8, 3)
           /\ kvl_out.V2 = Rat(16, 3)
           /\ kvl_out.V3 = IntR(4)

\* C7 witness: all four sliders were moved away from their defaults, to 21 V
\* and three different resistances.
C7_Witness ==
    /\ kvl_vs = Rat(21, 1)
    /\ kvl_r1 = IntR(10)
    /\ kvl_r2 = IntR(255)
    /\ kvl_r3 = IntR(500)
    /\ kvl_out.I = Rat(21, 765)

\* C8: for the current slider values of the KCL tab the displayed values
\* satisfy Vn * (1/R1 + 1/R2 + 1/R3) = V1/R1 + V2/R2 + V3/R3,
\* Ii * Ri = Vi - Vn, and the inflow equals the outflow.
C8_KCLDisplay ==
    /\ kcl_out.res = "ok"
    /\ RMul(kcl_out.Vn,
            RAdd(RAdd(RDiv(IntR(1), kcl_r1), RDiv(IntR(1), kcl_r2)),
                 RDiv(IntR(1), kcl_r3)))
         = RAdd(RAdd(RDiv(kcl_v1, kcl_r1), RDiv(kcl_v2, kcl_r2)),
                RDiv(kcl_v3, kcl_r3))
    /\ RMul(kcl_out.I1, kcl_r1) = RSub(kcl_v1, kcl_out.Vn)
    /\ RMul(kcl_out.I2, kcl_r2) = RSub(kcl_v2, kcl_out.Vn)
    /\ RMul(kcl_out.I3, kcl_r3) = RSub(kcl_v3, kcl_out.Vn)
    /\ kcl_out.I_in = kcl_out.I_out
    /\ kcl_out.check = IntR(0)

\* C8 witness: a node with two inflows and one outflow, after slider moves.
C8_Witness ==
    /\ kcl_v1 = IntR(20) /\ kcl_v2 = IntR(0) /\ kcl_v3 = IntR(-20)
    /\ kcl_r1 = IntR(500) /\ kcl_r2 = IntR(255) /\ kcl_r3 = IntR(10)
    /\ kcl_out.dirs = <<"IN", "IN", "OUT">>
    /\ IsPos(kcl_out.I_in)

\* C9: whatever the input variables hold, both solvers run to the end on
\* Vs >= 0.01 and every R >= 1 (the larger of the input and the floor), so
\* R1 + R2 + R3 > 0 and 1/R1 + 1/R2 + 1/R3 > 0.
C9_SolversDefined ==
    /\ kvl_out.res = "ok"
    /\ kvl_out.Vs = (IF RLess(kvl_vs, Rat(1, 100)) THEN Rat(1, 100) ELSE kvl_vs)
    /\ kvl_out.R1 = (IF RLess(kvl_r1, IntR(1)) THEN IntR(1) ELSE kvl_r1)
    /\ kvl_out.R2 = (IF RLess(kvl_r2, IntR(1)) THEN IntR(1) ELSE kvl_r2)
    /\ kvl_out.R3 = (IF RLess(kvl_r3, IntR(1)) THEN IntR(1) ELSE kvl_r3)
    /\ RLeq(Rat(1, 100), kvl_out.Vs)
    /\ \A R \in {kvl_out.R1, kvl_out.R2, kvl_out.R3} : RLeq(IntR(1), R)
    /\ IsPos(kvl_out.Rtot)
    /\ IsFinite(kvl_out.I)
    /\ kcl_out.res = "ok"
    /\ kcl_out.R1 = (IF RLess(kcl_r1, IntR(1)) THEN IntR(1) ELSE kcl_r1)
    /\ kcl_out.R2 = (IF RLess(kcl_r2, IntR(1)) THEN IntR(1) ELSE kcl_r2)
    /\ kcl_out.R3 = (IF RLess(kcl_r3, IntR(1)) THEN IntR(1) ELSE kcl_r3)
    /\ \A R \in {kcl_out.R1, kcl_out.R2, kcl_out.R3} : RLeq(IntR(1), R)
    /\ IsPos(kcl_out.Gsum)
    /\ IsFinite(kcl_out.Vn)

\* C9 witness: every resistance of both tabs is 0 or negative and the source
\* voltage is 0; both displays are complete.
C9_Witness ==
    /\ kvl_vs = IntR(0)
    /\ kvl_r1 = IntR(0) /\ kvl_r2 = IntR(0) /\ kvl_r3 = IntR(-5)
    /\ kcl_r1 = IntR(0) /\ kcl_r2 = IntR(-5) /\ kcl_r3 = IntR(0)
    /\ kvl_out.res = "ok"
    /\ kvl_out.I = Rat(1, 300)
    /\ kcl_out.res = "ok"

\* The steps of a staircase: the differences of neighbouring points that
\* are not 0, in order.
RECURSIVE Steps(_)
Steps(y) ==
    IF Len(y) < 2 THEN <<>>
    ELSE (IF y[2] = y[1] THEN <<>> ELSE <<RSub(y[2], y[1])>>) \o Steps(Tail(y))

KclCurrents == <<kcl_out.I1, kcl_out.I2, kcl_out.I3>>

InRange(q) == RLeq(IntR(q.range[1]), q.value) /\ RLeq(q.value, IntR(q.range[2]))

\* C10: in every reachable state, whatever Enter-Scalar windows were opened,
\* confirmed, rejected or cancelled, with whatever text and selection, the
\* value of every scalar quantity lies within that quantity's own [lo, hi].
C10_ScalarsInRange ==
    \A i \in 1..Len(SCALAR_DATA) : InRange(SCALAR_DATA[i])

\* C10 witness: Charge holds -60 from a confirmed OK, and the window is open
\* again with Voltage (DC) selected, the same text -60 in the entry variable
\* and the range message of Voltage's own range on display; Voltage keeps 5.
C10_Witness ==
    /\ SCALAR_DATA[1].value = IntR(-60)
    /\ SCALAR_DATA[2].value = IntR(5)
    /\ scalar_win.open
    /\ scalar_win.sel = 2
    /\ scalar_win.evar = <<"-", "6", "0">>
    /\ scalar_win.msg = [text |-> "Value must be between", lo |-> -20, hi |-> 20]

\* C11: in every reachable state, whatever Enter-Vector windows were opened,
\* confirmed, rejected or cancelled, with whatever texts and selection, the x
\* and the y component of every vector quantity lie in [-6, 6].
C11_VectorsInSix ==
    \A i \in 1..Len(VECTOR_DATA) :
        InSix(VECTOR_DATA[i].x) /\ InSix(VECTOR_DATA[i].y)

\* C11 witness: Electric Field E holds (-6, 6), both ends of the interval, from
\* a confirmed OK, and the window is open again with a y text of -7 refused:
\* the range message is on display.
C11_Witness ==
    /\ VECTOR_DATA[1].x = IntR(-6)
    /\ VECTOR_DATA[1].y = IntR(6)
    /\ vector_win.open
    /\ vector_win.sel = 1
    /\ vector_win.yvar = <<"-", "7">>
    /\ vector_win.msg = [text |-> "Both components must be", lo |-> -6, hi |-> 6]

\* the entries of the scalar window make no acceptable input: nothing is
\* selected, or the text is no number, or the number is outside the range of
\* the selected quantity
ScalarInputBad ==
    \/ scalar_win.sel = 0
    \/ \E f \in {PyFloat(scalar_win.evar)} :
           \/ ~f.ok
           \/ ~InRange([SCALAR_DATA[scalar_win.sel] EXCEPT !.value = f.val])

\* the same for the vector window
VectorInputBad ==
    \/ vector_win.sel = 0
    \/ \E fx \in {PyFloat(vector_win.xvar)} : \E fy \in {PyFloat(vector_win.yvar)} :
           \/ ~fx.ok \/ ~fy.ok
           \/ ~InSix(fx.val) \/ ~InSix(fy.val)

\* C12: an OK of the scalar or of the vector window with nothing selected, a
\* text that is no number or a value out of range is refused with a message:
\* every stored value, the active scalar and the active vector stay as they
\* were, the window stays open and nothing is redrawn.
C12_BadInputRefused ==
    [][ /\ (OkScalar /\ ScalarInputBad) =>
            /\ scalar_win'.open
            /\ scalar_win'.msg # NoMsg
            /\ scalar_win'.sel = scalar_win.sel /\ scalar_win'.evar = scalar_win.evar
            /\ UNCHANGED <<SCALAR_DATA, VECTOR_DATA, active_scalar, active_vector, drawn>>
        /\ (OkVector /\ VectorInputBad) =>
            /\ vector_win'.open
            /\ vector_win'.msg # NoMsg
            /\ vector_win'.sel = vector_win.sel /\ vector_win'.xvar = vector_win.xvar
            /\ vector_win'.yvar = vector_win.yvar
            /\ UNCHANGED <<SCALAR_DATA, VECTOR_DATA, active_scalar, active_vector, drawn>>
      ]_vars

\* C12 witness: Charge was set to -60 and Electric Field E to (0, 2) by two
\* confirmed OKs; the vector window is open again and its OK has just refused
\* the texts 6.5 and 0: the range message shows, and Charge, E, both active
\* names and the drawing are those of before.
C12_Witness ==
    /\ SCALAR_DATA[1].value = IntR(-60)
    /\ VECTOR_DATA[1].x = IntR(0) /\ VECTOR_DATA[1].y = IntR(2)
    /\ active_scalar = "Charge" /\ active_vector = "Electric Field E"
    /\ vector_win.open
    /\ vector_win.xvar = <<"6", ".", "5">>
    /\ vector_win.msg = [text |-> "Both components must be", lo |-> -6, hi |-> 6]
    /\ drawn = redraw_all(SCALAR_DATA, VECTOR_DATA, active_scalar, active_vector,
                          scalar_table_visible, vector_table_visible)

\* C13: in every reachable state the force shown by the Q x E panel is the
\* current Charge value times the current Electric Field E, component by
\* component (Fx = Q*Ex, Fy = Q*Ey), and the diagram and the card show the
\* same force.
C13_ForceIsQTimesE ==
    \A Q \in {SCALAR_DATA[KeyIndex(SCALAR_DATA, "Charge")].value} :
    \A E \in {VECTOR_DATA[KeyIndex(VECTOR_DATA, "Electric Field E")]} :
        /\ drawn.qxE.F = <<RMul(Q, E.x), RMul(Q, E.y)>>
        /\ drawn.qxE_card.F = drawn.qxE.F

\* a step in which the figure's event loop runs one of its button callbacks
FigureCallback ==
    toggle_scalar_table \/ toggle_vector_table \/ EnterScalar \/ EnterVector

\* C19: no toggle and no further Enter-Scalar or Enter-Vector callback runs
\* while a call of enter_scalar or enter_vector has not returned: each
\* callback is over before the next one starts.
C19_OneCallbackAtATime ==
    [][FigureCallback => mainloops = 0]_vars


(***************************************************************************)
(* Claims about the vector-operations applet                               *)
(***************************************************************************)
ZeroVec == <<IntR(0), IntR(0)>>

\* |x - y| <= 1/(2p): x is y to the nearest multiple of 1/p
Nearest(x, y, p) ==
    /\ x.d # 0 /\ p % x.d = 0
    /\ RLeq(RAbs(RSub(x, y)), Rat(1, 2 * p))

\* C14: whatever the three left sliders show, the result arrow of the left
\* plot is sigma times the input arrow, component by component; with a
\* nonzero input it is parallel to the input (cross = 0, dot > 0) for
\* sigma > 0 and anti-parallel (cross = 0, dot < 0) for sigma < 0; for
\* sigma = 0 it is the zero vector.
C14_ScaledVector ==
    \A V_in \in {<<sl_ex, sl_ey>>} : \A V_out \in {left_plot.V_out} :
        /\ left_plot.V_in = V_in
        /\ V_out = <<RMul(sl_sigma, sl_ex), RMul(sl_sigma, sl_ey)>>
        /\ (IsPos(sl_sigma) /\ V_in # ZeroVec) =>
               Cross(V_in, V_out) = IntR(0) /\ IsPos(Dot(V_in, V_out))
        /\ (IsNeg(sl_sigma) /\ V_in # ZeroVec) =>
               Cross(V_in, V_out) = IntR(0) /\ IsNeg(Dot(V_in, V_out))
        /\ sl_sigma = IntR(0) => V_out = ZeroVec

\* C14 witness: sigma = -1/2 and the input (-5, 2): the result drawn is
\* (5/2, -1), anti-parallel to the input.
C14_Witness ==
    /\ sl_sigma = Rat(-1, 2) /\ sl_ex = IntR(-5) /\ sl_ey = IntR(2)
    /\ left_plot.V_out = <<Rat(5, 2), IntR(-1)>>

\* C15: in dot mode, whatever the four right sliders show, the value shown
\* is v1x*v2x + v1y*v2y (to the two decimals of the text); that number is
\* >= 0 exactly when |v1 - v2|^2 <= |v1|^2 + |v2|^2, the angle between v1 and
\* v2 being at most 90 degrees; the text has the positive colour exactly
\* when the number is >= 0 and the negative colour otherwise.
C15_DotProduct ==
    radio = "Dot Product" =>
        \A v1 \in {<<sl_v1x, sl_v1y>>} : \A v2 \in {<<sl_v2x, sl_v2y>>} :
        \A d \in {RAdd(RMul(sl_v1x, sl_v2x), RMul(sl_v1y, sl_v2y))} :
        \A w \in {<<RSub(sl_v1x, sl_v2x), RSub(sl_v1y, sl_v2y)>>} :
            /\ right_plot.mode = "Dot Product"
            /\ Nearest(right_plot.value, d, 100)
            /\ RLeq(IntR(0), d) <=> RLeq(Dot(w, w), RAdd(Dot(v1, v1), Dot(v2, v2)))
            /\ right_plot.res_col = "res" <=> RLeq(IntR(0), d)
            /\ right_plot.res_col = "neg" <=> ~RLeq(IntR(0), d)

\* C15 witness: dot mode with v1 = (1/3, 1) and v2 = (3, -1), a right angle:
\* the value shown is 0 in the positive colour.
C15_Witness ==
    /\ radio = "Dot Product"
    /\ sl_v1x = Rat(1, 3) /\ sl_v1y = IntR(1) /\ sl_v2x = IntR(3) /\ sl_v2y = IntR(-1)
    /\ right_plot.value = IntR(0)
    /\ right_plot.res_col = "res"

\* C16: in cross mode, whatever the four right sliders show, the z component
\* shown is v1x*v2y - v1y*v2x (to the two decimals of the text), +1 for
\* v1 = (1, 0) and v2 = (0, 1); the direction text is 'Zero' when |z| < 0.1,
\* and otherwise 'OUT of page' for positive z and 'INTO page' for negative z.
C16_CrossProduct ==
    radio = "Cross Product" =>
        \A z \in {RSub(RMul(sl_v1x, sl_v2y), RMul(sl_v1y, sl_v2x))} :
            /\ right_plot.mode = "Cross Product"
            /\ Nearest(right_plot.value, z, 100)
            /\ (<<sl_v1x, sl_v1y>> = <<IntR(1), IntR(0)>> /\ <<sl_v2x, sl_v2y>> = <<IntR(0), IntR(1)>>)
                   => right_plot.value = IntR(1)
            /\ RLess(RAbs(z), Rat(1, 10)) => right_plot.dir_str = "Zero"
            /\ (IsPos(z) /\ ~RLess(RAbs(z), Rat(1, 10))) => right_plot.dir_str = "OUT of page"
            /\ (IsNeg(z) /\ ~RLess(RAbs(z), Rat(1, 10))) => right_plot.dir_str = "INTO page"

\* C16 witness: cross mode with v1 = (1, 0) and v2 = (0, 1): +1 and
\* 'OUT of page'.
C16_Witness ==
    /\ radio = "Cross Product"
    /\ sl_v1x = IntR(1) /\ sl_v1y = IntR(0) /\ sl_v2x = IntR(0) /\ sl_v2y = IntR(1)
    /\ right_plot.value = IntR(1)
    /\ right_plot.dir_str = "OUT of page"

(***************************************************************************)
(* Claims about the Q x E panel of the scalar-vs-vector applet             *)
(***************************************************************************)
\* the current value of 'Charge' and components of 'Electric Field E'
ChargeQ == SCALAR_DATA[KeyIndex(SCALAR_DATA, "Charge")].value
FieldE  == <<VECTOR_DATA[KeyIndex(VECTOR_DATA, "Electric Field E")].x,
             VECTOR_DATA[KeyIndex(VECTOR_DATA, "Electric Field E")].y>>

\* C21: in every reachable state the direction line of the card agrees with
\* the force F the card shows: 'Same direction as E' only when F is nonzero
\* and a positive multiple of E, 'OPPOSITE direction' only when F is nonzero
\* and a negative multiple of E, 'Zero vector' exactly when F = (0, 0).
C21_DirectionAgreesWithForce ==
    \A F \in {drawn.qxE_card.F} : \A E \in {FieldE} :
    \A direction \in {drawn.qxE_card.direction} :
        /\ direction = "Same direction as E" =>
               F # ZeroVec /\ Cross(E, F) = IntR(0) /\ IsPos(Dot(E, F))
        /\ direction = "OPPOSITE direction  (Q < 0)" =>
               F # ZeroVec /\ Cross(E, F) = IntR(0) /\ IsNeg(Dot(E, F))
        /\ direction = "Zero vector  (Q = 0)" <=> F = ZeroVec

\* C30: in every reachable state the diagram shows the note 'F = 0 (Q = 0)'
\* in place of the force arrow exactly when the direction line of the card
\* is 'Zero vector (Q = 0)', and that is exactly when Charge is 0.
C30_ZeroForceAgreed ==
    /\ ~drawn.qxE.arrow <=> drawn.qxE_card.direction = "Zero vector  (Q = 0)"
    /\ ~drawn.qxE.arrow <=> ChargeQ = IntR(0)

\* C24: a step that leaves the value of Charge and the components of
\* Electric Field E as they were (an edit of another quantity, a change of
\* the active scalar or vector, a toggle) leaves the force of the diagram
\* and of the card as it was; a confirmed OK that changes Charge or
\* Electric Field E redraws both with the force of the new values.
C24_ForceOfChargeAndE ==
    [][\A Q \in {ChargeQ'} : \A E \in {FieldE'} :
         /\ (Q = ChargeQ /\ E = FieldE) =>
                /\ drawn'.qxE.F = drawn.qxE.F
                /\ drawn'.qxE_card.F = drawn.qxE_card.F
         /\ ((OkScalar \/ OkVector) /\ (Q # ChargeQ \/ E # FieldE)) =>
                \A F \in {<<RMul(RDiv(Q, IntR(20)), E[1]), RMul(RDiv(Q, IntR(20)), E[2])>>} :
                    /\ drawn'.qxE.F = F /\ drawn'.qxE.Q_val = Q /\ drawn'.qxE.E = E
                    /\ drawn'.qxE_card.F = F
      ]_vars

\* C24 witness: Charge is -60 and Electric Field E is (-6, 6), both from a
\* confirmed OK; Voltage (DC) and Magnetic Field B were edited after that and
\* are the active quantities, the scalar table is hidden; the panel shows
\* the force of Charge and E.
C24_Witness ==
    /\ ChargeQ = IntR(-60) /\ FieldE = <<IntR(-6), IntR(6)>>
    /\ SCALAR_DATA[KeyIndex(SCALAR_DATA, "Voltage (DC)")].value = IntR(0)
    /\ VECTOR_DATA[KeyIndex(VECTOR_DATA, "Magnetic Field B")].x = IntR(-6)
    /\ active_scalar = "Voltage (DC)" /\ active_vector = "Magnetic Field B"
    /\ ~scalar_table_visible
    /\ drawn.qxE.F = <<IntR(18), IntR(-18)>>
    /\ drawn.qxE_card.F = <<IntR(18), IntR(-18)>>

\* C28: an OK of the scalar window that is accepted changes the value of the
\* selected scalar and nothing else in SCALAR_DATA, and makes it the active
\* scalar; an accepted OK of the vector window changes x and y of the
\* selected vector and nothing else in VECTOR_DATA, and makes it the active
\* vector.  The data of the other kind, the other active name and the two
\* visibility flags stay as they were.
C28_OkChangesSelectedOnly ==
    [][ /\ (OkScalar /\ ~ScalarInputBad) =>
            \A i \in {scalar_win.sel} :
                /\ SCALAR_DATA' = [SCALAR_DATA EXCEPT ![i].value = PyFloat(scalar_win.evar).val]
                /\ \A j \in 1..Len(SCALAR_DATA) : j # i => SCALAR_DATA'[j] = SCALAR_DATA[j]
                /\ active_scalar' = SCALAR_DATA[i].name
                /\ UNCHANGED <<VECTOR_DATA, active_vector,
                               scalar_table_visible, vector_table_visible>>
        /\ (OkVector /\ ~VectorInputBad) =>
            \A i \in {vector_win.sel} :
                /\ VECTOR_DATA' = [VECTOR_DATA EXCEPT ![i].x = PyFloat(vector_win.xvar).val,
                                                      ![i].y = PyFloat(vector_win.yvar).val]
                /\ \A j \in 1..Len(VECTOR_DATA) : j # i => VECTOR_DATA'[j] = VECTOR_DATA[j]
                /\ active_vector' = VECTOR_DATA[i].name
                /\ UNCHANGED <<SCALAR_DATA, active_scalar,
                               scalar_table_visible, vector_table_visible>>
      ]_vars

\* C28 witness: accepted OKs have set Voltage (DC) to 0 and Magnetic Field B
\* to (-6, 6) and made them the active quantities; Charge and Electric Field E
\* hold their start values, both tables are visible, no window is open.
C28_Witness ==
    /\ SCALAR_DATA = [SCALAR_DATA_0 EXCEPT ![2].value = IntR(0)]
    /\ VECTOR_DATA = [VECTOR_DATA_0 EXCEPT ![2].x = IntR(-6), ![2].y = IntR(6)]
    /\ active_scalar = "Voltage (DC)" /\ active_vector = "Magnetic Field B"
    /\ scalar_table_visible /\ vector_table_visible
    /\ ~scalar_win.open /\ ~vector_win.open

\* C29: a table toggle negates its own visibility flag and leaves the
\* quantities, the two active names and the other flag as they were, and no
\* other step changes a flag: so a flag has its start value, visible,
\* exactly after an even number of its toggles.  After the redraw of the
\* step each button label starts with 'v' exactly when its table is visible
\* and with '>' exactly when it is hidden.
C29_TogglesFlipOwnFlag ==
    [][ /\ toggle_scalar_table =>
            /\ scalar_table_visible' = ~scalar_table_visible
            /\ UNCHANGED <<SCALAR_DATA, VECTOR_DATA, active_scalar, active_vector,
                           vector_table_visible>>
        /\ toggle_vector_table =>
            /\ vector_table_visible' = ~vector_table_visible
            /\ UNCHANGED <<SCALAR_DATA, VECTOR_DATA, active_scalar, active_vector,
                           scalar_table_visible>>
        /\ scalar_table_visible' # scalar_table_visible => toggle_scalar_table
        /\ vector_table_visible' # vector_table_visible => toggle_vector_table
        /\ drawn'.toggles.s = "v  Scalar Table" <=> scalar_table_visible'
        /\ drawn'.toggles.s = ">  Scalar Table" <=> ~scalar_table_visible'
        /\ drawn'.toggles.v = "v  Vector Table" <=> vector_table_visible'
        /\ drawn'.toggles.v = ">  Vector Table" <=> ~vector_table_visible'
        /\ drawn'.scalar_table.visible = scalar_table_visible'
        /\ drawn'.vector_table.visible = vector_table_visible'
      ]_vars

\* C29 witness: the scalar table is hidden and the vector table visible, as
\* the labels say, while the scalar window is open and Charge holds the -60
\* of an earlier OK.
C29_Witness ==
    /\ ~scalar_table_visible /\ vector_table_visible
    /\ drawn.toggles = [s |-> ">  Scalar Table", v |-> "v  Vector Table"]
    /\ scalar_win.open
    /\ ChargeQ = IntR(-60)

=============================================================================
